---- MODULE Spec2Model ----
(***************************************************************************)
(* dependabot-configurator: generate.py (generation of                     *)
(* .github/dependabot.yml from a repository scan and the settings file)    *)
(* and pinact.py (selection of the workflow files to pin and the runs of   *)
(* the pinning tool on them).                                              *)
(*                                                                         *)
(* Strings the program inspects character by character (paths, file names, *)
(* glob patterns, file contents) are sequences of one-character strings;   *)
(* strings it only compares or copies (ecosystem names, keys, labels) are  *)
(* TLA+ strings.                                                           *)
(***************************************************************************)
EXTENDS Integers, Sequences, FiniteSets, TLC

VARIABLES
    tree,               \* the repository's regular files, in the order the OS lists them
    settings_file,      \* .github/.configurator_settings.yml: its entries, or NoFile
    args,               \* the parsed command line
    dependabot_yml,     \* .github/dependabot.yml on disk
    pc,                 \* position of generate.main
    settings,           \* the five settings lists
    directory_managers, \* directory -> list of <<manager, filename>>
    dependabot_config,  \* the document being built
    registry_map,       \* registry name -> info, in declaration order of first insertion
    writes,             \* completed writes of dependabot.yml in this run
    first_run,          \* dependabot.yml as an earlier run of generate.main left it
    org_prefix,         \* the environment variable ORGANIZATION_PREFIX
    force,              \* the --force flag of pinact.py
    workflow_dir,       \* the directory below --repo-path, as os.walk lists it
    cli_pc,             \* position of pinact.cli_main
    pos,                \* position of the loop cli_main is in
    valid_workflows,    \* the list find_valid_workflows builds
    workflows_to_pin,   \* the list handed to run_pinact_on_workflows
    consulted,          \* the paths needs_pinning was called with
    attempts,           \* the runs of the pinning tool, with their outcomes
    success_count,
    failure_count,
    exit_code,           \* exit_code of cli_main, returned once cli_pc is "exit"
    raised              \* the exception that left a call of cli_main, or NotRaised

\* the state of generate.main and its files
main_vars == <<tree, settings_file, args, dependabot_yml, pc, settings,
               directory_managers, dependabot_config, registry_map, writes>>

\* the state of pinact.cli_main and its files
pinact_vars == <<org_prefix, force, workflow_dir, cli_pc, pos, valid_workflows,
                 workflows_to_pin, consulted, attempts, success_count,
                 failure_count, exit_code, raised>>

vars == <<main_vars, first_run, pinact_vars>>

----------------------------------------------------------------------------
(* Bounds of the explored inputs *)

MaxFiles == 2
MaxEntries == 2

----------------------------------------------------------------------------
(* Python str operations *)

\* str.strip("/"): drop every leading and trailing "/"
RECURSIVE LStrip(_)
LStrip(s) == IF s # <<>> /\ Head(s) = "/" THEN LStrip(Tail(s)) ELSE s

RECURSIVE RStrip(_)
RStrip(s) ==
    IF s # <<>> /\ s[Len(s)] = "/" THEN RStrip(SubSeq(s, 1, Len(s) - 1)) ELSE s

Strip(s) == RStrip(LStrip(s))

\* str.startswith
StartsWith(s, prefix) ==
    Len(prefix) <= Len(s) /\ SubSeq(s, 1, Len(prefix)) = prefix

\* code points of the characters that occur in the explored paths
Ord == "*" :> 42 @@ "-" :> 45 @@ "." :> 46 @@ "/" :> 47 @@ "?" :> 63
       @@ "D" :> 68 @@ "_" :> 95 @@ "a" :> 97 @@ "b" :> 98 @@ "c" :> 99
       @@ "d" :> 100 @@ "e" :> 101 @@ "f" :> 102 @@ "g" :> 103 @@ "i" :> 105
       @@ "k" :> 107 @@ "l" :> 108 @@ "m" :> 109 @@ "o" :> 111 @@ "r" :> 114
       @@ "s" :> 115 @@ "t" :> 116 @@ "u" :> 117 @@ "x" :> 120 @@ "y" :> 121

\* str < str: lexicographic by code point
RECURSIVE StrLess(_, _)
StrLess(s, t) ==
    IF t = <<>> THEN FALSE
    ELSE IF s = <<>> THEN TRUE
    ELSE IF Head(s) = Head(t) THEN StrLess(Tail(s), Tail(t))
    ELSE Ord[Head(s)] < Ord[Head(t)]

\* str.split("/")
RECURSIVE SplitFrom(_, _)
SplitFrom(s, cur) ==
    IF s = <<>> THEN <<cur>>
    ELSE IF Head(s) = "/" THEN <<cur>> \o SplitFrom(Tail(s), <<>>)
    ELSE SplitFrom(Tail(s), Append(cur, Head(s)))

Split(s) == SplitFrom(s, <<>>)

\* fnmatch.fnmatch on a POSIX host (normcase is the identity) for patterns
\* built from literals, "*" and "?"
RECURSIVE fnmatch(_, _)
fnmatch(name, pat) ==
    IF pat = <<>> THEN name = <<>>
    ELSE IF Head(pat) = "*"
        THEN \/ fnmatch(name, Tail(pat))
             \/ name # <<>> /\ fnmatch(Tail(name), pat)
    ELSE IF Head(pat) = "?"
        THEN name # <<>> /\ fnmatch(Tail(name), Tail(pat))
    ELSE name # <<>> /\ Head(name) = Head(pat) /\ fnmatch(Tail(name), Tail(pat))

\* matches_ignore_pattern(filename, patterns)
matches_ignore_pattern(filename, patterns) ==
    \E i \in 1..Len(patterns) : fnmatch(filename, patterns[i])

----------------------------------------------------------------------------
(* The ecosystem table *)

PACKAGE_MANAGERS ==
       ("bundler" :> <<
          <<"*","*","/","G","e","m","f","i","l","e">>,
          <<"*","*","/","G","e","m","f","i","l","e",".","l","o","c","k">>
       >>)
    @@ ("cargo" :> <<
          <<"*","*","/","C","a","r","g","o",".","t","o","m","l">>,
          <<"*","*","/","C","a","r","g","o",".","l","o","c","k">>
       >>)
    @@ ("composer" :> <<
          <<"*","*","/","c","o","m","p","o","s","e","r",".","j","s","o","n">>,
          <<"*","*","/","c","o","m","p","o","s","e","r",".","l","o","c","k">>
       >>)
    @@ ("docker" :> <<
          <<"*","*","/","D","o","c","k","e","r","f","i","l","e">>
       >>)
    @@ ("elm" :> <<
          <<"*","*","/","e","l","m",".","j","s","o","n">>
       >>)
    @@ ("github-actions" :> <<
          <<".","g","i","t","h","u","b","/","w","o","r","k","f","l","o","w","s","/","*",".","y","m","l">>,
          <<".","g","i","t","h","u","b","/","w","o","r","k","f","l","o","w","s","/","*",".","y","a","m","l">>
       >>)
    @@ ("gomod" :> <<
          <<"*","*","/","g","o",".","m","o","d">>,
          <<"*","*","/","g","o",".","s","u","m">>
       >>)
    @@ ("gradle" :> <<
          <<"*","*","/","b","u","i","l","d",".","g","r","a","d","l","e">>,
          <<"*","*","/","b","u","i","l","d",".","g","r","a","d","l","e",".","k","t","s">>
       >>)
    @@ ("maven" :> <<
          <<"*","*","/","p","o","m",".","x","m","l">>
       >>)
    @@ ("npm" :> <<
          <<"*","*","/","p","a","c","k","a","g","e",".","j","s","o","n">>,
          <<"*","*","/","p","a","c","k","a","g","e","-","l","o","c","k",".","j","s","o","n">>,
          <<"*","*","/","y","a","r","n",".","l","o","c","k">>
       >>)
    @@ ("nuget" :> <<
          <<"*","*","/","*",".","c","s","p","r","o","j">>,
          <<"*","*","/","p","a","c","k","a","g","e","s",".","c","o","n","f","i","g">>
       >>)
    @@ ("pip" :> <<
          <<"*","*","/","r","e","q","u","i","r","e","m","e","n","t","s","*",".","t","x","t">>,
          <<"*","*","/","p","y","p","r","o","j","e","c","t",".","t","o","m","l">>,
          <<"*","*","/","p","o","e","t","r","y",".","l","o","c","k">>,
          <<"*","*","/","P","i","p","f","i","l","e">>,
          <<"*","*","/","P","i","p","f","i","l","e",".","l","o","c","k">>
       >>)
    @@ ("pub" :> <<
          <<"*","*","/","p","u","b","s","p","e","c",".","y","a","m","l">>,
          <<"*","*","/","p","u","b","s","p","e","c",".","l","o","c","k">>
       >>)
    @@ ("swift" :> <<
          <<"*","*","/","P","a","c","k","a","g","e",".","s","w","i","f","t">>
       >>)
    @@ ("terraform" :> <<
          <<"*","*","/",".","t","e","r","r","a","f","o","r","m",".","l","o","c","k",".","h","c","l">>
       >>)


\* the keys of PACKAGE_MANAGERS in dict order, which is also their sorted order
ManagerNames ==
    <<"bundler", "cargo", "composer", "docker", "elm", "github-actions", "gomod",
      "gradle", "maven", "npm", "nuget", "pip", "pub", "swift", "terraform">>

----------------------------------------------------------------------------
(* Paths and glob *)

\* A path below the repository root is the sequence of its components.

\* os.path.basename / os.path.dirname
basename(path) == path[Len(path)]

dirname(path) == SubSeq(path, 1, Len(path) - 1)

\* "/".join(components)
RECURSIVE Join(_)
Join(components) ==
    IF components = <<>> THEN <<>>
    ELSE IF Len(components) = 1 THEN Head(components)
    ELSE Head(components) \o <<"/">> \o Join(Tail(components))

\* relpath + normpath + the "/" form: "/" for the root ("."), else "/" + path
NormalizeDirPath(dir_components) ==
    IF dir_components = <<>> THEN <<"/">> ELSE <<"/">> \o Join(dir_components)

\* glob.has_magic
has_magic(p) == \E i \in 1..Len(p) : p[i] \in {"*", "?", "["}

\* glob._ishidden
ishidden(name) == name # <<>> /\ name[1] = "."

\* one path component against one pattern component (glob0 / glob1)
GlobComponent(name, p) ==
    IF has_magic(p)
    THEN fnmatch(name, p) /\ (ishidden(name) => ishidden(p))
    ELSE name = p

\* glob.glob(pattern, recursive=True) decides this for the path of a regular
\* file: "**" stands for zero or more directories, none of them hidden
RECURSIVE GlobMatch(_, _)
GlobMatch(parts, pat) ==
    IF pat = <<>> THEN parts = <<>>
    ELSE IF Head(pat) = <<"*", "*">>
        THEN \/ GlobMatch(parts, Tail(pat))
             \/ Len(parts) > 1 /\ ~ishidden(Head(parts)) /\ GlobMatch(Tail(parts), pat)
    ELSE /\ parts # <<>>
         /\ GlobComponent(Head(parts), Head(pat))
         /\ GlobMatch(Tail(parts), Tail(pat))

\* mutant: the github-actions pattern is .github/*.yml
PatternParts_WorkflowsAnywhere ==
    [m \in DOMAIN PACKAGE_MANAGERS |->
        IF m = "github-actions"
        THEN << << <<".", "g", "i", "t", "h", "u", "b">>, <<"*", ".", "y", "m", "l">> >> >>
        ELSE [i \in DOMAIN PACKAGE_MANAGERS[m] |-> Split(PACKAGE_MANAGERS[m][i])]]

\* the patterns of PACKAGE_MANAGERS, split at "/"
PatternParts ==
    [m \in DOMAIN PACKAGE_MANAGERS |->
        [i \in DOMAIN PACKAGE_MANAGERS[m] |-> Split(PACKAGE_MANAGERS[m][i])]]

\* glob.glob(repo_path + pattern, recursive=True) filtered by os.path.isfile
glob(files, pattern_parts) ==
    SelectSeq(files, LAMBDA f : GlobMatch(f, pattern_parts))

\* directory_managers.setdefault(dir_path, []).append(manager_file_tuple)
AppendTuple(dm, dir_path, manager_file_tuple) ==
    IF dir_path \in DOMAIN dm
    THEN [dm EXCEPT ![dir_path] = Append(@, manager_file_tuple)]
    ELSE dm @@ (dir_path :> <<manager_file_tuple>>)

RECURSIVE AddMatches(_, _, _)
AddMatches(dm, manager, matches) ==
    IF matches = <<>> THEN dm
    ELSE AddMatches(
            AppendTuple(dm, NormalizeDirPath(dirname(Head(matches))),
                        <<manager, basename(Head(matches))>>),
            manager, Tail(matches))

RECURSIVE ScanPatterns(_, _, _, _)
ScanPatterns(dm, files, manager, patterns) ==
    IF patterns = <<>> THEN dm
    ELSE ScanPatterns(AddMatches(dm, manager, glob(files, Head(patterns))),
                      files, manager, Tail(patterns))

RECURSIVE ScanManagers(_, _, _)
ScanManagers(dm, files, managers) ==
    IF managers = <<>> THEN dm
    ELSE ScanManagers(
            ScanPatterns(dm, files, Head(managers), PatternParts[Head(managers)]),
            files, Tail(managers))

\* the empty dict
EmptyDict == [x \in {} |-> <<>>]

get_directory_managers(files) == ScanManagers(EmptyDict, files, ManagerNames)

----------------------------------------------------------------------------
(* Settings loader *)

\* a path at which no file exists
NoFile == [exists |-> FALSE]

\* the settings file holding these entries (yaml.load(f) or [])
SettingsFile(entries) == [exists |-> TRUE, entries |-> entries]

EmptySettings ==
    [dependencies |-> <<>>, directories |-> <<>>, file_patterns |-> <<>>,
     registries |-> <<>>, custom_files |-> <<>>]

\* mutant: every recognised key of an entry is read
LoadEntry_EveryKey(s, entry) ==
    LET of(key) == IF key \in DOMAIN entry THEN entry[key] ELSE <<>>
    IN  [dependencies |-> s.dependencies \o of("ignore-dependency"),
         directories |-> s.directories \o of("ignore-directory"),
         file_patterns |-> s.file_patterns \o of("ignore-version-updates-for-files"),
         registries |-> s.registries \o of("registries"),
         custom_files |-> s.custom_files \o of("custom-files")]

\* one iteration of the loop over the entries of the settings file
LoadEntry(s, entry) ==
    IF "ignore-dependency" \in DOMAIN entry
        THEN [s EXCEPT !.dependencies = @ \o entry["ignore-dependency"]]
    ELSE IF "ignore-directory" \in DOMAIN entry
        THEN [s EXCEPT !.directories = @ \o entry["ignore-directory"]]
    ELSE IF "ignore-version-updates-for-files" \in DOMAIN entry
        THEN [s EXCEPT !.file_patterns = @ \o entry["ignore-version-updates-for-files"]]
    ELSE IF "registries" \in DOMAIN entry
        THEN [s EXCEPT !.registries = @ \o entry["registries"]]
    ELSE IF "custom-files" \in DOMAIN entry
        THEN [s EXCEPT !.custom_files = @ \o entry["custom-files"]]
    ELSE s

RECURSIVE LoadEntries(_, _)
LoadEntries(s, entries) ==
    IF entries = <<>> THEN s
    ELSE LoadEntries(LoadEntry(s, Head(entries)), Tail(entries))

\* mutant: an absent settings file ignores the whole repository
load_configurator_settings_AbsentIgnoresRoot(file) ==
    IF ~file.exists THEN [EmptySettings EXCEPT !.directories = << <<"/">> >>]
    ELSE LoadEntries(EmptySettings, file.entries)

load_configurator_settings(file) ==
    IF ~file.exists THEN EmptySettings ELSE LoadEntries(EmptySettings, file.entries)

----------------------------------------------------------------------------
(* Custom files *)

\* os.path.isfile(full_path)
isfile(files, path) == \E i \in 1..Len(files) : files[i] = path

\* os.path.join(repo_path, file_path.lstrip("/")), below the repository root
FullPath(file_path) == Split(LStrip(file_path))

\* mutant: the directory of a custom file is recorded as it is declared,
\* without the leading slash of the manifest keys
AddCustomFile_RawDirectory(files, dm, custom_file) ==
    IF "path" \notin DOMAIN custom_file \/ "manager" \notin DOMAIN custom_file
        THEN dm
    ELSE IF ~(\E i \in 1..Len(ManagerNames) : ManagerNames[i] = custom_file["manager"])
        THEN dm
    ELSE IF ~isfile(files, FullPath(custom_file["path"]))
        THEN dm
    ELSE AppendTuple(dm,
                     Join(dirname(FullPath(custom_file["path"]))),
                     <<custom_file["manager"], basename(FullPath(custom_file["path"]))>>)

\* one iteration of the loop over the custom-file declarations
AddCustomFile(files, dm, custom_file) ==
    IF "path" \notin DOMAIN custom_file \/ "manager" \notin DOMAIN custom_file
        THEN dm
    ELSE IF ~(\E i \in 1..Len(ManagerNames) : ManagerNames[i] = custom_file["manager"])
        THEN dm
    ELSE IF ~isfile(files, FullPath(custom_file["path"]))
        THEN dm
    ELSE AppendTuple(dm,
                     NormalizeDirPath(dirname(FullPath(custom_file["path"]))),
                     <<custom_file["manager"], basename(FullPath(custom_file["path"]))>>)

\* mutant: the loop ends at the first declaration it rejects
RECURSIVE add_custom_files_to_directory_managers_StopAtRejected(_, _, _)
add_custom_files_to_directory_managers_StopAtRejected(files, custom_files, dm) ==
    IF custom_files = <<>> THEN dm
    ELSE IF AddCustomFile(files, dm, Head(custom_files)) = dm THEN dm
    ELSE add_custom_files_to_directory_managers_StopAtRejected(
            files, Tail(custom_files), AddCustomFile(files, dm, Head(custom_files)))

RECURSIVE add_custom_files_to_directory_managers(_, _, _)
add_custom_files_to_directory_managers(files, custom_files, dm) ==
    IF custom_files = <<>> THEN dm
    ELSE add_custom_files_to_directory_managers(
            files, Tail(custom_files), AddCustomFile(files, dm, Head(custom_files)))

----------------------------------------------------------------------------
(* Registries *)

\* mutant: a name that is set again moves to the end
DictSet_MovedToEnd(items, name, value) ==
    Append(SelectSeq(items, LAMBDA item : item.name # name),
           [name |-> name, value |-> value])

\* dict[key] = value on an insertion-ordered dict kept as a sequence of
\* [name, value] items: a present key keeps its position
DictSet(items, name, value) ==
    IF \E i \in 1..Len(items) : items[i].name = name
    THEN [i \in 1..Len(items) |->
            IF items[i].name = name THEN [name |-> name, value |-> value] ELSE items[i]]
    ELSE Append(items, [name |-> name, value |-> value])

\* registry.get("applies-to", [])
AppliesToOf(registry) ==
    IF "applies-to" \in DOMAIN registry THEN registry["applies-to"] ELSE <<>>

\* mutant: only the name is validated
ValidRegistry_NameOnly(registry) ==
    /\ "name" \in DOMAIN registry
    /\ registry["name"] # ""

\* the registry passes both validations of add_registries
ValidRegistry(registry) ==
    /\ "name" \in DOMAIN registry
    /\ registry["name"] # ""
    /\ {"name", "type", "url"} \subseteq DOMAIN registry

\* the declared fields except name and applies-to
RegistryConfig(registry) ==
    [key \in DOMAIN registry \ {"name", "applies-to"} |-> registry[key]]

RegistryInfo(registry) ==
    [type |-> registry["type"], config |-> RegistryConfig(registry)]
        @@ ("applies-to" :> AppliesToOf(registry))

\* the loop of add_registries; acc = [registries, registry_map]
RECURSIVE AddRegistryLoop(_, _)
AddRegistryLoop(acc, registry_configs) ==
    IF registry_configs = <<>> THEN acc
    ELSE LET registry == Head(registry_configs)
         IN  AddRegistryLoop(
                IF ValidRegistry(registry)
                THEN [registries |->
                        DictSet(acc.registries, registry["name"], RegistryConfig(registry)),
                      registry_map |->
                        DictSet(acc.registry_map, registry["name"], RegistryInfo(registry))]
                ELSE acc,
                Tail(registry_configs))

\* add_registries: the [registries, registry_map] pair; the document gets the
\* registries key only when registries is non-empty
add_registries(registry_configs) ==
    AddRegistryLoop([registries |-> <<>>, registry_map |-> <<>>], registry_configs)

----------------------------------------------------------------------------
(* Update entries *)

None == <<>>

\* x in list
InList(x, list) == \E i \in 1..Len(list) : list[i] = x

\* mutant: a directory whose name begins like the rule is taken for a
\* subdirectory
DirectoryIgnored_AnyPrefix(dir_path, ignore_directories) ==
    \E i \in 1..Len(ignore_directories) :
        StartsWith(Strip(dir_path), Strip(ignore_directories[i]))

\* the loop at the head of create_dependabot_update_entry: the directory
\* matches an ignore-directory rule
DirectoryIgnored(dir_path, ignore_directories) ==
    LET normalized_dir_path == Strip(dir_path)
    IN  \E i \in 1..Len(ignore_directories) :
            LET normalized_ignored_dir == Strip(ignore_directories[i])
            IN  \/ normalized_dir_path = normalized_ignored_dir
                \/ StartsWith(normalized_dir_path, normalized_ignored_dir \o <<"/">>)

\* mutant: an empty applicability list applies to no ecosystem
RegistryApplies_ListedOnly(registry_info, manager) ==
    InList(manager, registry_info["applies-to"])

\* the registry applies to the ecosystem
RegistryApplies(registry_info, manager) ==
    \/ registry_info["applies-to"] = <<>>
    \/ InList(manager, registry_info["applies-to"])

\* mutant: each applicable name is put in front of the list
RECURSIVE ApplicableRegistries_Prepended(_, _)
ApplicableRegistries_Prepended(manager, items) ==
    IF items = <<>> THEN <<>>
    ELSE ApplicableRegistries_Prepended(manager, Tail(items))
         \o (IF RegistryApplies(Head(items).value, manager)
             THEN <<Head(items).name>> ELSE <<>>)

\* applicable_registries of both entry constructors
RECURSIVE ApplicableRegistries(_, _)
ApplicableRegistries(manager, items) ==
    IF items = <<>> THEN <<>>
    ELSE (IF RegistryApplies(Head(items).value, manager)
          THEN <<Head(items).name>> ELSE <<>>)
         \o ApplicableRegistries(manager, Tail(items))

\* entry["registries"] = applicable_registries, when there are any
WithRegistries(entry, manager, items) ==
    IF ApplicableRegistries(manager, items) # <<>>
    THEN entry @@ ("registries" :> ApplicableRegistries(manager, items))
    ELSE entry

\* manager.replace("-", "_")
ReplaceDash(manager) ==
    IF manager = "github-actions" THEN "github_actions" ELSE manager

VersionGroup ==
    ("applies-to" :> "version-updates") @@ ("update-types" :> <<"minor", "patch">>)

\* mutant: the version-update entry carries the limit of the security entry
create_dependabot_update_entry_ZeroLimit(manager, dir_path, schedule, open_pr_limit, main_branch, ignore_directories, items) ==
    IF DirectoryIgnored(dir_path, ignore_directories) THEN None
    ELSE WithRegistries(
            [directory |-> dir_path,
             schedule |-> schedule,
             allow |-> <<("dependency-type" :> "direct")>>,
             groups |-> ((ReplaceDash(manager) \o "_updates") :> VersionGroup),
             labels |-> <<"version-update", "dependencies">>]
                @@ ("package-ecosystem" :> manager)
                @@ ("open-pull-requests-limit" :> 0)
                @@ ("target-branch" :> main_branch),
            manager, items)

create_dependabot_update_entry(manager, dir_path, schedule, open_pr_limit, main_branch, ignore_directories, items) ==
    IF DirectoryIgnored(dir_path, ignore_directories) THEN None
    ELSE WithRegistries(
            [directory |-> dir_path,
             schedule |-> schedule,
             allow |-> <<("dependency-type" :> "direct")>>,
             groups |-> ((ReplaceDash(manager) \o "_updates") :> VersionGroup),
             labels |-> <<"version-update", "dependencies">>]
                @@ ("package-ecosystem" :> manager)
                @@ ("open-pull-requests-limit" :> open_pr_limit)
                @@ ("target-branch" :> main_branch),
            manager, items)

prodsec_group ==
    ("applies-to" :> "security-updates") @@ ("update-types" :> <<"minor", "patch">>)

\* mutant: the transitive-security flag is not read
create_security_update_entry_DirectOnly(manager, dir_path, schedule, transitive_security, items) ==
    WithRegistries(
        [directory |-> dir_path,
         schedule |-> schedule,
         allow |-> <<("dependency-type" :> "direct")>>,
         labels |-> <<"security-update", "dependencies">>,
         groups |-> ("prodsec" :> prodsec_group)]
            @@ ("package-ecosystem" :> manager)
            @@ ("open-pull-requests-limit" :> 0),
        manager, items)

create_security_update_entry(manager, dir_path, schedule, transitive_security, items) ==
    WithRegistries(
        [directory |-> dir_path,
         schedule |-> schedule,
         allow |-> <<("dependency-type" :>
                        (IF transitive_security THEN "all" ELSE "direct"))>>,
         labels |-> <<"security-update", "dependencies">>,
         groups |-> ("prodsec" :> prodsec_group)]
            @@ ("package-ecosystem" :> manager)
            @@ ("open-pull-requests-limit" :> 0),
        manager, items)

\* mutant: every ecosystem gets the monday schedule
Schedule_AlwaysMonday(manager) ==
    [interval |-> "weekly", day |-> "monday", time |-> "08:00",
     timezone |-> "America/Chicago"]

\* the schedule chosen in main
Schedule(manager) ==
    [interval |-> "weekly",
     day |-> IF manager = "docker" THEN "wednesday" ELSE "monday",
     time |-> "08:00",
     timezone |-> "America/Chicago"]

----------------------------------------------------------------------------
(* Entry synthesis: the loop of main *)

\* mutant: the directories by length of their path, then in string order
RECURSIVE SortedDirs_ShortestFirst(_)
SortedDirs_ShortestFirst(dirs) ==
    IF dirs = {} THEN <<>>
    ELSE LET first == CHOOSE d \in dirs :
                          \A e \in dirs \ {d} :
                              \/ Len(d) < Len(e)
                              \/ Len(d) = Len(e) /\ StrLess(d, e)
         IN  <<first>> \o SortedDirs_ShortestFirst(dirs \ {first})

\* sorted(directory_managers.items()): the directories in string order
RECURSIVE SortedDirs(_)
SortedDirs(dirs) ==
    IF dirs = {} THEN <<>>
    ELSE LET first == CHOOSE d \in dirs : \A e \in dirs \ {d} : StrLess(d, e)
         IN  <<first>> \o SortedDirs(dirs \ {first})

\* mutant: the managers of the directory, one per recorded file
unique_managers_PerFile(manager_files) ==
    [i \in 1..Len(manager_files) |-> manager_files[i][1]]

\* mutant: the managers in the order they were first recorded, unsorted
unique_managers_FirstSeen(manager_files) ==
    LET first == SelectSeq([i \in 1..Len(manager_files) |-> i],
                           LAMBDA i : \A j \in 1..(i - 1) :
                                         manager_files[j][1] # manager_files[i][1])
    IN  [k \in 1..Len(first) |-> manager_files[first[k]][1]]

\* sorted(list(set(manager for manager, _ in manager_files)))
unique_managers(manager_files) ==
    SelectSeq(ManagerNames,
              LAMBDA m : \E i \in 1..Len(manager_files) : manager_files[i][1] = m)

\* mutant: the files of every manager of the directory are checked
skip_version_update_for_manager_AnyManager(manager, manager_files, ignore_file_patterns) ==
    \E i \in 1..Len(manager_files) :
        \E j \in 1..Len(ignore_file_patterns) :
            matches_ignore_pattern(manager_files[i][2], <<ignore_file_patterns[j]>>)

\* skip_version_update_for_manager after the file-pattern loop
skip_version_update_for_manager(manager, manager_files, ignore_file_patterns) ==
    \E i \in 1..Len(manager_files) :
        /\ manager_files[i][1] = manager
        /\ \E j \in 1..Len(ignore_file_patterns) :
              matches_ignore_pattern(manager_files[i][2], <<ignore_file_patterns[j]>>)

\* mutant: the limit is compared with >= 0
VersionEntries_LimitNotPositive(manager, dir_path, manager_files, a, s, items) ==
    IF /\ a.open_pull_requests_limit >= 0
       /\ ~skip_version_update_for_manager(manager, manager_files, s.file_patterns)
    THEN LET normal_entry ==
                create_dependabot_update_entry(
                    manager, dir_path, Schedule(manager), a.open_pull_requests_limit,
                    a.main_branch, s.directories, items)
         IN  IF normal_entry # None THEN <<normal_entry>> ELSE <<>>
    ELSE <<>>

\* the version-update entry of one (directory, manager), as a list of 0 or 1
VersionEntries(manager, dir_path, manager_files, a, s, items) ==
    IF /\ a.open_pull_requests_limit > 0
       /\ ~skip_version_update_for_manager(manager, manager_files, s.file_patterns)
    THEN LET normal_entry ==
                create_dependabot_update_entry(
                    manager, dir_path, Schedule(manager), a.open_pull_requests_limit,
                    a.main_branch, s.directories, items)
         IN  IF normal_entry # None THEN <<normal_entry>> ELSE <<>>
    ELSE <<>>

\* mutant: an ignored directory gets no security-update entry either
RECURSIVE SynthManagers_SecurityIgnored(_, _, _, _, _, _)
SynthManagers_SecurityIgnored(managers, dir_path, manager_files, a, s, items) ==
    IF managers = <<>> THEN <<>>
    ELSE VersionEntries(Head(managers), dir_path, manager_files, a, s, items)
         \o (IF DirectoryIgnored(dir_path, s.directories) THEN <<>>
             ELSE <<create_security_update_entry(
                       Head(managers), dir_path, Schedule(Head(managers)),
                       a.transitive_security, items)>>)
         \o SynthManagers_SecurityIgnored(Tail(managers), dir_path, manager_files, a, s, items)

\* mutant: a file-pattern match drops the security-update entry too
RECURSIVE SynthManagers_SecuritySkipped(_, _, _, _, _, _)
SynthManagers_SecuritySkipped(managers, dir_path, manager_files, a, s, items) ==
    IF managers = <<>> THEN <<>>
    ELSE VersionEntries(Head(managers), dir_path, manager_files, a, s, items)
         \o (IF skip_version_update_for_manager(Head(managers), manager_files,
                                                s.file_patterns)
             THEN <<>>
             ELSE <<create_security_update_entry(
                       Head(managers), dir_path, Schedule(Head(managers)),
                       a.transitive_security, items)>>)
         \o SynthManagers_SecuritySkipped(Tail(managers), dir_path, manager_files, a, s, items)

\* the body of the loop over the managers of one directory
RECURSIVE SynthManagers(_, _, _, _, _, _)
SynthManagers(managers, dir_path, manager_files, a, s, items) ==
    IF managers = <<>> THEN <<>>
    ELSE VersionEntries(Head(managers), dir_path, manager_files, a, s, items)
         \o <<create_security_update_entry(
                 Head(managers), dir_path, Schedule(Head(managers)),
                 a.transitive_security, items)>>
         \o SynthManagers(Tail(managers), dir_path, manager_files, a, s, items)

\* the loop over the directories
RECURSIVE SynthDirs(_, _, _, _, _)
SynthDirs(dirs, dm, a, s, items) ==
    IF dirs = <<>> THEN <<>>
    ELSE SynthManagers(unique_managers(dm[Head(dirs)]), Head(dirs), dm[Head(dirs)],
                       a, s, items)
         \o SynthDirs(Tail(dirs), dm, a, s, items)

Synthesize(dm, a, s, items) == SynthDirs(SortedDirs(DOMAIN dm), dm, a, s, items)

----------------------------------------------------------------------------
(* Ignore-dependency rules *)

\* dict.get(key, default)
Get(d, key, default) == IF key \in DOMAIN d THEN d[key] ELSE default

\* the ignore block built from one rule; str(None) is "None"
ignore_entry(ignore) ==
    ("dependency-name" :> Get(ignore, "dependency-name", "None"))
        @@ ("update-types" :> Get(ignore, "update-types", <<>>))

\* mutant: the prodsec group is not looked at
IgnoreApplies_AnyGroup(update, ignore) ==
    /\ "package-ecosystem" \in DOMAIN ignore
    /\ update["package-ecosystem"] = ignore["package-ecosystem"]
    /\ "groups" \in DOMAIN update

\* the rule applies to the entry
IgnoreApplies(update, ignore) ==
    /\ "package-ecosystem" \in DOMAIN ignore
    /\ update["package-ecosystem"] = ignore["package-ecosystem"]
    /\ "groups" \in DOMAIN update
    /\ "prodsec" \notin DOMAIN update["groups"]

\* mutant: a block the entry already holds is not appended again
AppendIgnore_Deduplicated(update, block) ==
    IF "ignore" \in DOMAIN update
    THEN IF InList(block, update["ignore"]) THEN update
         ELSE [update EXCEPT !["ignore"] = Append(@, block)]
    ELSE update @@ ("ignore" :> <<block>>)

\* update.setdefault("ignore", CommentedSeq()); update["ignore"].append(...)
AppendIgnore(update, block) ==
    IF "ignore" \in DOMAIN update
    THEN [update EXCEPT !["ignore"] = Append(@, block)]
    ELSE update @@ ("ignore" :> <<block>>)

\* the inner loop of add_ignores, for one rule
ApplyIgnore(updates, ignore) ==
    [i \in 1..Len(updates) |->
        IF IgnoreApplies(updates[i], ignore)
        THEN AppendIgnore(updates[i], ignore_entry(ignore))
        ELSE updates[i]]

RECURSIVE add_ignores(_, _)
add_ignores(updates, ignore_dependencies) ==
    IF ignore_dependencies = <<>> THEN updates
    ELSE add_ignores(ApplyIgnore(updates, Head(ignore_dependencies)),
                     Tail(ignore_dependencies))

----------------------------------------------------------------------------
(* The document and the file *)

\* dependabot_config after add_registries: version, updates and, when a
\* registry is valid, registries
NewConfig(registries) ==
    IF registries # <<>>
    THEN [version |-> 2, updates |-> <<>>, registries |-> registries]
    ELSE [version |-> 2, updates |-> <<>>]

\* what a reader finds in dependabot.yml once yaml.dump has returned
Written(config) == [exists |-> TRUE, complete |-> TRUE, doc |-> config]

\* what a reader finds after open(config_path, "w") truncated the file and
\* before yaml.dump has returned: some prefix of the document, possibly empty
Truncated == [exists |-> TRUE, complete |-> FALSE]

\* a file left by an earlier run, on a repository without manifests
PriorFile == Written([version |-> 2, updates |-> <<>>])

----------------------------------------------------------------------------
(* Explored inputs *)

GoMod == <<"g", "o", ".", "m", "o", "d">>
GoSum == <<"g", "o", ".", "s", "u", "m">>
Dockerfile == <<"D", "o", "c", "k", "e", "r", "f", "i", "l", "e">>

\* the directories ".", "a", "a/b" and "ab" of the repository
RepoDirs == << <<>>, << <<"a">> >>, << <<"a">>, <<"b">> >>, << <<"a", "b">> >> >>

RepoNames == <<GoMod, GoSum, Dockerfile>>

\* every explored file, in the order the OS lists them
CandidateFiles ==
    [i \in 1..(Len(RepoDirs) * Len(RepoNames)) |->
        Append(RepoDirs[((i - 1) \div Len(RepoNames)) + 1],
               RepoNames[((i - 1) % Len(RepoNames)) + 1])]

Trees ==
    {SelectSeq(CandidateFiles, LAMBDA f : f \in S) :
        S \in {T \in SUBSET {CandidateFiles[i] : i \in 1..Len(CandidateFiles)} :
                  Cardinality(T) <= MaxFiles}}

RegistryGomod ==
    [name |-> "r1", type |-> "npm-registry", url |-> "https://r1"]
        @@ ("applies-to" :> <<"gomod">>)

RegistryAll == [name |-> "r1", type |-> "python-index", url |-> "https://all"]

RegistryNoUrl == [name |-> "r2", type |-> "npm-registry"]

RegistryEmptyName == [name |-> "", type |-> "npm-registry", url |-> "https://r3"]

IgnoreGomodDep ==
    ("package-ecosystem" :> "gomod") @@ ("dependency-name" :> "dep")
        @@ ("update-types" :> <<"version-update:semver-major">>)

\* declares a/go.mod, which the scan discovers too when it exists
CustomGoMod == [path |-> <<"/", "a", "/", "g", "o", ".", "m", "o", "d">>, manager |-> "gomod"]

SettingsEntries ==
    { ("ignore-directory" :> << <<"/">> >>),
      ("ignore-directory" :> << <<"/", "a", "/">> >>),
      ("ignore-version-updates-for-files" :> << <<"*", ".", "s", "u", "m">> >>),
      ("registries" :> <<RegistryGomod>>),
      ("registries" :> <<RegistryAll>>),
      ("registries" :> <<RegistryNoUrl, RegistryEmptyName>>),
      ("ignore-dependency" :> <<IgnoreGomodDep>>),
      ("custom-files" :> <<CustomGoMod>>) }

SettingsFiles ==
    {NoFile} \cup
        {SettingsFile(entries) :
            entries \in UNION {[1..n -> SettingsEntries] : n \in 0..MaxEntries}}

\* config_path of save_dependabot_config, below the repository root
ConfigPath ==
    << <<".", "g", "i", "t", "h", "u", "b">>,
       <<"d", "e", "p", "e", "n", "d", "a", "b", "o", "t", ".", "y", "m", "l">> >>

\* settings_file of load_configurator_settings, below the repository root
SettingsPath ==
    << <<".", "g", "i", "t", "h", "u", "b">>,
       <<".", "c", "o", "n", "f", "i", "g", "u", "r", "a", "t", "o", "r", "_", "s", "e", "t", "t", "i", "n", "g", "s", ".", "y", "m", "l">> >>

\* declares the generated file as a docker manifest
CustomConfigFile ==
    [path |-> <<"/", ".", "g", "i", "t", "h", "u", "b", "/", "d", "e", "p", "e", "n", "d", "a", "b", "o", "t", ".", "y", "m", "l">>,
     manager |-> "docker"]

\* declares the settings file as an npm manifest
CustomSettingsFile ==
    [path |-> <<".", "g", "i", "t", "h", "u", "b", "/", ".", "c", "o", "n", "f", "i", "g", "u", "r", "a", "t", "o", "r", "_", "s", "e", "t", "t", "i", "n", "g", "s", ".", "y", "m", "l">>,
     manager |-> "npm"]

\* the manifests of the repositories that are run on twice
TwiceBases ==
    { <<>>,
      << << <<"a">>, GoMod >> >>,
      << <<Dockerfile>>, << <<"a">>, GoSum >> >>,
      << <<Dockerfile>>, <<GoMod>>, << <<"a">>, GoMod >> >> }

\* a repository with its settings file and its generated file, when they exist
RepoFiles(base, has_settings, has_config) ==
    base \o (IF has_settings THEN <<SettingsPath>> ELSE <<>>)
         \o (IF has_config THEN <<ConfigPath>> ELSE <<>>)

TwiceTrees ==
    {RepoFiles(base, has_settings, has_config) :
        base \in TwiceBases, has_settings \in BOOLEAN, has_config \in BOOLEAN}

TwiceEntries ==
    { ("custom-files" :> <<CustomConfigFile>>),
      ("custom-files" :> <<CustomSettingsFile>>),
      ("custom-files" :> <<CustomGoMod>>),
      ("custom-files" :>
          << [manager |-> "gomod"],
             [path |-> CustomGoMod.path],
             [path |-> CustomGoMod.path, manager |-> "yarn"],
             [path |-> <<"/", "a">>, manager |-> "gomod"],
             [path |-> <<"/", "b", "/", "g", "o", ".", "m", "o", "d">>,
              manager |-> "gomod"],
             CustomGoMod >>),
      ("registries" :> <<RegistryGomod>>),
      ("registries" :>
          << [name |-> "r2", type |-> "npm-registry", url |-> "https://r2"],
             [name |-> "r1", type |-> "docker-registry", url |-> "https://d"]
                 @@ ("applies-to" :> <<"docker">>) >>),
      ("ignore-dependency" :> <<IgnoreGomodDep>>),
      ("ignore-dependency" :>
          << ("package-ecosystem" :> "gomod") @@ ("dependency-name" :> "other"),
             IgnoreGomodDep,
             ("package-ecosystem" :> "pip") @@ ("dependency-name" :> "dep")
                 @@ ("update-types" :> <<"version-update:semver-minor">>) >>),
      ("ignore-directory" :> << <<"/", "a", "/">> >>),
      ("ignore-version-updates-for-files" :> << <<"*", ".", "y", "m", "l">> >>) }

TwiceSettingsFiles ==
    {NoFile} \cup
        {SettingsFile(entries) :
            entries \in UNION {[1..n -> TwiceEntries] : n \in 0..MaxEntries}}

\* settings entries with one, several or no recognised key
LoadedEntries ==
    { ("ignore-directory" :> << <<"/", "a", "/">> >>),
      ("ignore-dependency" :> <<IgnoreGomodDep>>) @@ ("registries" :> <<RegistryGomod>>)
          @@ ("ignore-version-updates-for-files" :> << <<"*", ".", "s", "u", "m">> >>),
      ("ignore-directory" :> << <<"/", "a", "b">> >>) @@ ("custom-files" :> <<CustomGoMod>>),
      ("ignore-version-updates-for-files" :> << <<"*", ".", "m", "o", "d">> >>)
          @@ ("registries" :> <<RegistryAll>>),
      ("registries" :> <<RegistryNoUrl>>) @@ ("custom-files" :> <<CustomConfigFile>>),
      ("labels" :> <<"x">>),
      ("labels" :> <<"x">>) @@ ("custom-files" :> <<CustomGoMod>>),
      ("ignore-dependency" :> <<IgnoreGomodDep, IgnoreGomodDep>>)
          @@ ("ignore-directory" :> << <<"/">> >>)
          @@ ("ignore-version-updates-for-files" :> << <<"*">> >>)
          @@ ("registries" :> <<RegistryAll, RegistryGomod>>)
          @@ ("custom-files" :> <<CustomSettingsFile>>) }

\* get_directory_managers on every explored tree, computed once
ScannedTrees == [files \in Trees \cup TwiceTrees |-> get_directory_managers(files)]

OpenPrLimits == {0, 3}

Args ==
    [open_pull_requests_limit : OpenPrLimits,
     main_branch : {"main"},
     transitive_security : BOOLEAN]

----------------------------------------------------------------------------
(* generate.main, step by step *)

\* no earlier run in this session
NoRun == [ran |-> FALSE]

\* pinact.py is not running
\* no exception has left a call made by cli_main
NotRaised == [by |-> "", class |-> ""]

PinactIdle ==
    /\ org_prefix = [set |-> FALSE]
    /\ force = FALSE
    /\ workflow_dir = [exists |-> FALSE]
    /\ cli_pc = "idle"
    /\ pos = 0
    /\ valid_workflows = <<>>
    /\ workflows_to_pin = <<>>
    /\ consulted = <<>>
    /\ attempts = <<>>
    /\ success_count = 0
    /\ failure_count = 0
    /\ exit_code = 0
    /\ raised = NotRaised

Init ==
    /\ tree \in Trees
    /\ settings_file \in SettingsFiles
    /\ args \in Args
    /\ dependabot_yml = PriorFile
    /\ pc = "load_settings"
    /\ settings = EmptySettings
    /\ directory_managers = EmptyDict
    /\ dependabot_config = <<>>
    /\ registry_map = <<>>
    /\ writes = 0
    /\ first_run = NoRun
    /\ PinactIdle

Inputs == <<tree, settings_file, args>>

\* settings = load_configurator_settings(repo_path)
LoadSettings ==
    /\ pc = "load_settings"
    /\ settings' = load_configurator_settings(settings_file)
    /\ pc' = "scan"
    /\ UNCHANGED <<Inputs, first_run, pinact_vars, dependabot_yml, directory_managers, dependabot_config,
                   registry_map, writes>>

\* directory_managers = get_directory_managers(repo_path, PACKAGE_MANAGERS)
ScanRepository ==
    /\ pc = "scan"
    /\ directory_managers' = ScannedTrees[tree]
    /\ pc' = "custom_files"
    /\ UNCHANGED <<Inputs, first_run, pinact_vars, dependabot_yml, settings, dependabot_config,
                   registry_map, writes>>

\* add_custom_files_to_directory_managers(repo_path, custom_files, directory_managers)
AddCustomFiles ==
    /\ pc = "custom_files"
    /\ directory_managers' =
          add_custom_files_to_directory_managers(
              tree, settings.custom_files, directory_managers)
    /\ pc' = "registries"
    /\ UNCHANGED <<Inputs, first_run, pinact_vars, dependabot_yml, settings, dependabot_config,
                   registry_map, writes>>

\* os.makedirs, the new document and add_registries
AddRegistries ==
    /\ pc = "registries"
    /\ dependabot_config' = NewConfig(add_registries(settings.registries).registries)
    /\ registry_map' = add_registries(settings.registries).registry_map
    /\ pc' = "synthesize"
    /\ UNCHANGED <<Inputs, first_run, pinact_vars, dependabot_yml, settings, directory_managers, writes>>

\* the loop over the directories and their managers
SynthesizeEntries ==
    /\ pc = "synthesize"
    /\ dependabot_config' =
          [dependabot_config EXCEPT
              !.updates = Synthesize(directory_managers, args, settings, registry_map)]
    /\ pc' = "add_ignores"
    /\ UNCHANGED <<Inputs, first_run, pinact_vars, dependabot_yml, settings, directory_managers,
                   registry_map, writes>>

\* if settings["dependencies"]: add_ignores(updates, settings)
AddIgnores ==
    /\ pc = "add_ignores"
    /\ dependabot_config' =
          [dependabot_config EXCEPT !.updates = add_ignores(@, settings.dependencies)]
    /\ pc' = "save"
    /\ UNCHANGED <<Inputs, first_run, pinact_vars, dependabot_yml, settings, directory_managers,
                   registry_map, writes>>

\* save_dependabot_config: open(config_path, "w") creates or truncates the file
SaveOpen ==
    /\ pc = "save"
    /\ dependabot_yml' = Truncated
    /\ pc' = "dump"
    /\ UNCHANGED <<Inputs, first_run, pinact_vars, settings, directory_managers, dependabot_config,
                   registry_map, writes>>

\* save_dependabot_config: yaml.dump returns and the file is closed
SaveDump ==
    /\ pc = "dump"
    /\ dependabot_yml' = Written(dependabot_config)
    /\ writes' = writes + 1
    /\ pc' = "done"
    /\ UNCHANGED <<Inputs, first_run, pinact_vars, settings, directory_managers, dependabot_config,
                   registry_map>>

\* the process ends: its memory is gone
Exit(status) ==
    /\ pc' = status
    /\ settings' = EmptySettings
    /\ directory_managers' = EmptyDict
    /\ dependabot_config' = <<>>
    /\ registry_map' = <<>>

\* an unhandled exception before the file is opened (a malformed settings
\* file, an I/O error of the scan, of makedirs or of open)
Raise ==
    /\ pc \in {"load_settings", "scan", "custom_files", "registries", "synthesize",
               "add_ignores", "save"}
    /\ Exit("failed")
    /\ UNCHANGED <<Inputs, first_run, pinact_vars, dependabot_yml, writes>>

\* an unhandled exception of yaml.dump (a failing write): the with block
\* closes the file as the write left it
RaiseInDump ==
    /\ pc = "dump"
    /\ Exit("failed")
    /\ UNCHANGED <<Inputs, first_run, pinact_vars, dependabot_yml, writes>>

Next ==
    \/ LoadSettings
    \/ ScanRepository
    \/ AddCustomFiles
    \/ AddRegistries
    \/ SynthesizeEntries
    \/ AddIgnores
    \/ SaveOpen
    \/ SaveDump
    \/ Raise
    \/ RaiseInDump

Spec == Init /\ [][Next]_vars

----------------------------------------------------------------------------
(* generate.main, run twice in succession on one repository *)

\* no .github/dependabot.yml in the repository
NoConfigFile == [exists |-> FALSE]

InitTwice ==
    /\ settings_file \in TwiceSettingsFiles
    /\ \E base \in TwiceBases, has_config \in BOOLEAN :
          /\ tree = RepoFiles(base, settings_file.exists, has_config)
          /\ dependabot_yml = IF has_config THEN PriorFile ELSE NoConfigFile
    /\ args \in Args
    /\ pc = "load_settings"
    /\ settings = EmptySettings
    /\ directory_managers = EmptyDict
    /\ dependabot_config = <<>>
    /\ registry_map = <<>>
    /\ writes = 0
    /\ first_run = NoRun
    /\ PinactIdle

\* the first run has returned and generate.main is started again with the
\* same arguments: the repository now holds the file the first run wrote
Rerun ==
    /\ pc = "done"
    /\ ~first_run.ran
    /\ first_run' = [ran |-> TRUE, file |-> dependabot_yml,
                     had_config |-> isfile(tree, ConfigPath)]
    /\ tree' = IF isfile(tree, ConfigPath) THEN tree ELSE Append(tree, ConfigPath)
    /\ Exit("load_settings")
    /\ writes' = 0
    /\ UNCHANGED <<settings_file, args, dependabot_yml, pinact_vars>>

NextTwice ==
    \/ LoadSettings
    \/ ScanRepository
    \/ AddCustomFiles
    \/ AddRegistries
    \/ SynthesizeEntries
    \/ AddIgnores
    \/ SaveOpen
    \/ SaveDump
    \/ Raise
    \/ RaiseInDump
    \/ Rerun

SpecTwice == InitTwice /\ [][NextTwice]_vars

----------------------------------------------------------------------------
(* generate.main on settings entries with several keys *)

InitLoad ==
    /\ settings_file \in
          {SettingsFile(entries) :
              entries \in UNION {[1..n -> LoadedEntries] : n \in 0..MaxEntries}}
    /\ \E base \in TwiceBases : tree = RepoFiles(base, TRUE, FALSE)
    /\ args \in Args
    /\ dependabot_yml = NoConfigFile
    /\ pc = "load_settings"
    /\ settings = EmptySettings
    /\ directory_managers = EmptyDict
    /\ dependabot_config = <<>>
    /\ registry_map = <<>>
    /\ writes = 0
    /\ first_run = NoRun
    /\ PinactIdle

SpecLoad == InitLoad /\ [][Next]_vars

----------------------------------------------------------------------------
(* pinact.py: strings and files *)

\* the length of a commit SHA in sha_pin_pattern
ShaLength == 40

\* s.endswith(suffix)
EndsWith(s, suffix) ==
    /\ Len(suffix) <= Len(s)
    /\ SubSeq(s, Len(s) - Len(suffix) + 1, Len(s)) = suffix

\* sub in s
Contains(s, sub) ==
    \E i \in 0..(Len(s) - Len(sub)) : SubSeq(s, i + 1, i + Len(sub)) = sub

\* \s of the regular expressions, on the characters the files hold
IsSpace(c) == c \in {" ", "\t", "\n", "\r", "\f"}

\* [a-f0-9]
IsHex(c) ==
    c \in {"0", "1", "2", "3", "4", "5", "6", "7", "8", "9", "a", "b", "c", "d", "e", "f"}

\* the first position from i on that holds no whitespace, Len(s) + 1 if none
RECURSIVE SkipSpace(_, _)
SkipSpace(s, i) ==
    IF i <= Len(s) /\ IsSpace(s[i]) THEN SkipSpace(s, i + 1) ELSE i

\* the first position from i on that holds whitespace, Len(s) + 1 if none
RECURSIVE SkipNonSpace(_, _)
SkipNonSpace(s, i) ==
    IF i <= Len(s) /\ ~IsSpace(s[i]) THEN SkipNonSpace(s, i + 1) ELSE i

\* f.readlines() of a file opened in text mode: the lines of the content,
\* each with its line end, where \r and \r\n are read as \n
RECURSIVE readlines(_)
readlines(content) ==
    IF content = <<>> THEN <<>>
    ELSE LET ends == {i \in 1..Len(content) : content[i] \in {"\n", "\r"}}
             n == IF ends = {} THEN Len(content)
                  ELSE CHOOSE i \in ends : \A j \in ends : i <= j
             m == IF /\ ends # {}
                     /\ content[n] = "\r"
                     /\ n < Len(content)
                     /\ content[n + 1] = "\n"
                  THEN n + 1 ELSE n
             line == IF ends = {} THEN content
                     ELSE Append(SubSeq(content, 1, n - 1), "\n")
         IN  <<line>> \o readlines(SubSeq(content, m + 1, Len(content)))

Uses == <<"u", "s", "e", "s", ":">>

\* uses_pattern.search(line), ^\s*-?\s*uses:\s*(\S+): group 1 of the match,
\* or None
uses_pattern(line) ==
    LET a == SkipSpace(line, 1)
        b == IF a <= Len(line) /\ line[a] = "-" THEN a + 1 ELSE a
        c == SkipSpace(line, b)
        d == SkipSpace(line, c + Len(Uses))
        e == SkipNonSpace(line, d)
    IN  IF /\ c + Len(Uses) - 1 <= Len(line)
           /\ SubSeq(line, c, c + Len(Uses) - 1) = Uses
           /\ e > d
        THEN SubSeq(line, d, e - 1)
        ELSE None

\* sha_pin_pattern.search(action_reference), @[a-f0-9]{40}
sha_pin_pattern(action_reference) ==
    \E k \in 1..Len(action_reference) :
        /\ action_reference[k] = "@"
        /\ k + ShaLength <= Len(action_reference)
        /\ \A m \in 1..ShaLength : IsHex(action_reference[k + m])

\* a file of the workflow directory: its path below the base path, its
\* content, and whether open and read succeed on it
WorkflowFile(path, content, readable) ==
    [path |-> path, content |-> content, readable |-> readable]

\* the file a path names
FileAt(dir, path) ==
    LET found == {i \in 1..Len(dir.files) : dir.files[i].path = path}
    IN  IF dir.exists /\ found # {}
        THEN dir.files[CHOOSE i \in found : TRUE]
        ELSE WorkflowFile(path, <<>>, FALSE)

\* mutant: a tag or branch after @ counts as a pin
needs_pinning_AnyRefPinned(file) ==
    /\ file.readable
    /\ \E i \in 1..Len(readlines(file.content)) :
          LET action_reference == uses_pattern(readlines(file.content)[i])
          IN  /\ action_reference # None
              /\ ~Contains(action_reference, <<"@">>)

\* needs_pinning: some uses line carries a reference without a SHA pin; False
\* when the file cannot be read
needs_pinning(file) ==
    /\ file.readable
    /\ \E i \in 1..Len(readlines(file.content)) :
          LET action_reference == uses_pattern(readlines(file.content)[i])
          IN  /\ action_reference # None
              /\ ~sha_pin_pattern(action_reference)

\* exclusion_pattern = f"uses: {org_prefix}/"
exclusion_pattern(prefix) == Uses \o <<" ">> \o prefix \o <<"/">>

\* mutant: only an unset variable is refused
PrefixMissing_UnsetOnly(env) == ~env.set

\* not org_prefix: the variable is unset or empty
PrefixMissing(env) == IF env.set THEN env.value = <<>> ELSE TRUE

\* mutant: only the .yml suffix is accepted
IsValidWorkflow_YmlOnly(file, prefix) ==
    /\ EndsWith(basename(file.path), <<".", "y", "m", "l">>)
    /\ file.readable
    /\ ~Contains(file.content, exclusion_pattern(prefix))

\* the body of the walk loop accepts the file
IsValidWorkflow(file, prefix) ==
    /\ \/ EndsWith(basename(file.path), <<".", "y", "m", "l">>)
       \/ EndsWith(basename(file.path), <<".", "y", "a", "m", "l">>)
    /\ file.readable
    /\ ~Contains(file.content, exclusion_pattern(prefix))

----------------------------------------------------------------------------
(* pinact.py: explored inputs *)

MaxWorkflows == 3

\* a step with an action at a tag
UnpinnedContent ==
    <<"s", "t", "e", "p", "s", ":", "\n", " ", " ", "-", " ", "u", "s", "e",
      "s", ":", " ", "x", "/", "y", "@", "v", "4", "\n">>

\* a commented-out uses line and a step with an action at a commit SHA
PinnedContent ==
    <<"#", " ", "u", "s", "e", "s", ":", " ", "x", "/", "y", "@", "v", "1",
      "\n", " ", " ", "-", " ", "u", "s", "e", "s", ":", " ", "x", "/", "y",
      "@", "1", "a", "2", "b", "3", "c", "4", "d", "5", "e", "1", "a", "2",
      "b", "3", "c", "4", "d", "5", "e", "1", "a", "2", "b", "3", "c", "4",
      "d", "5", "e", "1", "a", "2", "b", "3", "c", "4", "d", "5", "e", "\n">>

\* a job that calls a reusable workflow of the organisation o, at a commit SHA
ReusableContent ==
    <<" ", " ", "u", "s", "e", "s", ":", " ", "o", "/", "r", "/", "w", ".",
      "y", "m", "l", "@", "1", "a", "2", "b", "3", "c", "4", "d", "5", "e",
      "1", "a", "2", "b", "3", "c", "4", "d", "5", "e", "1", "a", "2", "b",
      "3", "c", "4", "d", "5", "e", "1", "a", "2", "b", "3", "c", "4", "d",
      "5", "e", "\n">>

\* the explored files, in the order os.walk yields them
CandidateWorkflows ==
    << WorkflowFile(<< <<"a", ".", "y", "m", "l">> >>, UnpinnedContent, TRUE),
       WorkflowFile(<< <<"b", ".", "y", "a", "m", "l">> >>, PinnedContent, TRUE),
       WorkflowFile(<< <<"c", ".", "y", "m", "l">> >>, ReusableContent, TRUE),
       WorkflowFile(<< <<"d", ".", "y", "m", "l">> >>, UnpinnedContent, FALSE),
       WorkflowFile(<< <<"e", ".", "t", "x", "t">> >>, UnpinnedContent, TRUE),
       WorkflowFile(<< <<"s">>, <<"f", ".", "y", "m", "l">> >>, UnpinnedContent, TRUE) >>

\* the base path does not exist, or holds up to MaxWorkflows of the files
WorkflowDirs ==
    {[exists |-> FALSE]} \cup
        {[exists |-> TRUE, files |-> SelectSeq(CandidateWorkflows, LAMBDA f : f \in S)] :
            S \in {T \in SUBSET {CandidateWorkflows[i] : i \in 1..Len(CandidateWorkflows)} :
                      Cardinality(T) <= MaxWorkflows}}

\* ORGANIZATION_PREFIX unset, empty, or the organisation o
Environments ==
    {[set |-> FALSE], [set |-> TRUE, value |-> <<>>], [set |-> TRUE, value |-> <<"o">>]}

\* how one run of the pinning tool ends: exit 0, a non-zero exit, a timeout,
\* any other exception (the tool is not installed)
Outcomes == {"ok", "CalledProcessError", "TimeoutExpired", "Exception"}

----------------------------------------------------------------------------
(* pinact.cli_main, step by step *)

\* generate.main is not running
MainIdle ==
    /\ tree = <<>>
    /\ settings_file = NoFile
    /\ args = [open_pull_requests_limit |-> 0, main_branch |-> "main",
               transitive_security |-> FALSE]
    /\ dependabot_yml = PriorFile
    /\ pc = "idle"
    /\ settings = EmptySettings
    /\ directory_managers = EmptyDict
    /\ dependabot_config = <<>>
    /\ registry_map = <<>>
    /\ writes = 0
    /\ first_run = NoRun

InitPinact ==
    /\ MainIdle
    /\ org_prefix \in Environments
    /\ force \in BOOLEAN
    /\ workflow_dir \in WorkflowDirs
    /\ cli_pc = "start"
    /\ pos = 0
    /\ valid_workflows = <<>>
    /\ workflows_to_pin = <<>>
    /\ consulted = <<>>
    /\ attempts = <<>>
    /\ success_count = 0
    /\ failure_count = 0
    /\ exit_code = 0
    /\ raised = NotRaised

PinactInputs == <<org_prefix, force, workflow_dir>>

\* find_valid_workflows raises ValueError before the walk; cli_main catches
\* it and returns 1
MissingPrefix ==
    /\ cli_pc = "start"
    /\ PrefixMissing(org_prefix)
    /\ exit_code' = 1
    /\ raised' = [by |-> "find_valid_workflows", class |-> "ValueError"]
    /\ cli_pc' = "exit"
    /\ UNCHANGED <<main_vars, first_run, PinactInputs, pos, valid_workflows,
                   workflows_to_pin, consulted, attempts, success_count, failure_count>>

\* find_valid_workflows enters os.walk
BeginWalk ==
    /\ cli_pc = "start"
    /\ ~PrefixMissing(org_prefix)
    /\ cli_pc' = "walk"
    /\ pos' = 1
    /\ UNCHANGED <<main_vars, first_run, PinactInputs, raised, valid_workflows,
                   workflows_to_pin, consulted, attempts, success_count,
                   failure_count, exit_code>>

\* one file of the walk: the suffix test, the read, the exclusion test
WalkFile ==
    /\ cli_pc = "walk"
    /\ workflow_dir.exists
    /\ pos <= Len(workflow_dir.files)
    /\ valid_workflows' =
          IF IsValidWorkflow(workflow_dir.files[pos], org_prefix.value)
          THEN Append(valid_workflows, workflow_dir.files[pos].path)
          ELSE valid_workflows
    /\ pos' = pos + 1
    /\ UNCHANGED <<main_vars, first_run, PinactInputs, raised, cli_pc, workflows_to_pin,
                   consulted, attempts, success_count, failure_count, exit_code>>

\* os.walk raises while files remain: the scan ends with what it has found
WalkError ==
    /\ cli_pc = "walk"
    /\ workflow_dir.exists
    /\ pos <= Len(workflow_dir.files)
    /\ cli_pc' = "select"
    /\ UNCHANGED <<main_vars, first_run, PinactInputs, raised, pos, valid_workflows,
                   workflows_to_pin, consulted, attempts, success_count,
                   failure_count, exit_code>>

\* os.walk is exhausted; it yields nothing for a base path that does not exist
WalkEnd ==
    /\ cli_pc = "walk"
    /\ IF workflow_dir.exists THEN pos > Len(workflow_dir.files) ELSE TRUE
    /\ cli_pc' = "select"
    /\ UNCHANGED <<main_vars, first_run, PinactInputs, raised, pos, valid_workflows,
                   workflows_to_pin, consulted, attempts, success_count,
                   failure_count, exit_code>>

\* mutant: --force is not looked at
select_workflows_ForceIgnored(potential_workflows, flag, dir) ==
    SelectSeq(potential_workflows, LAMBDA wf : needs_pinning(FileAt(dir, wf)))

\* workflows_to_pin of cli_main
select_workflows(potential_workflows, flag, dir) ==
    IF flag THEN potential_workflows
    ELSE SelectSeq(potential_workflows, LAMBDA wf : needs_pinning(FileAt(dir, wf)))

\* cli_main chooses the workflows to pin, calling needs_pinning on each
\* potential workflow unless --force is set
SelectWorkflows ==
    /\ cli_pc = "select"
    /\ workflows_to_pin' = select_workflows(valid_workflows, force, workflow_dir)
    /\ consulted' = IF force THEN <<>> ELSE valid_workflows
    /\ cli_pc' = IF workflows_to_pin' # <<>> THEN "run" ELSE "finish"
    /\ pos' = 1
    /\ UNCHANGED <<main_vars, first_run, PinactInputs, raised, valid_workflows, attempts,
                   success_count, failure_count, exit_code>>

\* mutant: the loop stops at the first failure
RunPinact_StopAtFailure ==
    /\ cli_pc = "run"
    /\ pos <= Len(workflows_to_pin)
    /\ \E outcome \in Outcomes :
          /\ attempts' = Append(attempts, [workflow |-> workflows_to_pin[pos],
                                           outcome |-> outcome])
          /\ success_count' = success_count + (IF outcome = "ok" THEN 1 ELSE 0)
          /\ failure_count' = failure_count + (IF outcome = "ok" THEN 0 ELSE 1)
          /\ pos' = IF outcome = "ok" THEN pos + 1 ELSE Len(workflows_to_pin) + 1
    /\ UNCHANGED <<main_vars, first_run, PinactInputs, raised, cli_pc, valid_workflows,
                   workflows_to_pin, consulted, exit_code>>

\* one iteration of run_pinact_on_workflows: subprocess.run and its handlers
RunPinact ==
    /\ cli_pc = "run"
    /\ pos <= Len(workflows_to_pin)
    /\ \E outcome \in Outcomes :
          /\ attempts' = Append(attempts, [workflow |-> workflows_to_pin[pos],
                                           outcome |-> outcome])
          /\ success_count' = success_count + (IF outcome = "ok" THEN 1 ELSE 0)
          /\ failure_count' = failure_count + (IF outcome = "ok" THEN 0 ELSE 1)
          /\ pos' = pos + 1
    /\ UNCHANGED <<main_vars, first_run, PinactInputs, raised, cli_pc, valid_workflows,
                   workflows_to_pin, consulted, exit_code>>

\* run_pinact_on_workflows logs its summary and returns
RunEnd ==
    /\ cli_pc = "run"
    /\ pos > Len(workflows_to_pin)
    /\ cli_pc' = "finish"
    /\ UNCHANGED <<main_vars, first_run, PinactInputs, raised, pos, valid_workflows,
                   workflows_to_pin, consulted, attempts, success_count,
                   failure_count, exit_code>>

\* cli_main returns exit_code as it set it on entry
Finish ==
    /\ cli_pc = "finish"
    /\ cli_pc' = "exit"
    /\ UNCHANGED <<main_vars, first_run, PinactInputs, raised, pos, valid_workflows,
                   workflows_to_pin, consulted, attempts, success_count,
                   failure_count, exit_code>>

NextPinact ==
    \/ MissingPrefix
    \/ BeginWalk
    \/ WalkFile
    \/ WalkError
    \/ WalkEnd
    \/ SelectWorkflows
    \/ RunPinact
    \/ RunEnd
    \/ Finish

SpecPinact == InitPinact /\ [][NextPinact]_vars

----------------------------------------------------------------------------
(* pinact.cli_main when a call it makes raises *)

\* what a call may raise: an error, or the interrupt of the process
ExceptionClasses == {"Exception", "KeyboardInterrupt"}

\* except Exception: every class but those derived from BaseException alone
Caught(class) == class \in {"Exception", "ValueError"}

\* mutant: the handler of cli_main leaves exit_code as it is
CallRaises_ExitCodeKept ==
    /\ \E f \in {"find_valid_workflows", "needs_pinning", "run_pinact_on_workflows"},
          class \in ExceptionClasses :
          /\ CASE f = "find_valid_workflows" -> cli_pc = "walk"
                [] f = "needs_pinning" ->
                      cli_pc = "select" /\ ~force /\ valid_workflows # <<>>
                [] OTHER -> cli_pc = "run"
          /\ raised' = [by |-> f, class |-> class]
          /\ cli_pc' = IF Caught(class) THEN "exit" ELSE "propagated"
          /\ exit_code' = exit_code
    /\ IF cli_pc = "select"
       THEN \E k \in 1..Len(valid_workflows) :
                consulted' = SubSeq(valid_workflows, 1, k)
       ELSE consulted' = consulted
    /\ UNCHANGED <<main_vars, first_run, PinactInputs, pos, valid_workflows,
                   workflows_to_pin, attempts, success_count, failure_count>>

\* an exception leaves find_valid_workflows, a call of needs_pinning or
\* run_pinact_on_workflows: their own handlers catch Exception around the
\* file and tool operations only. The handler of cli_main catches Exception,
\* sets exit_code to 1 and cli_main returns it; any other exception leaves
\* cli_main
CallRaises ==
    /\ \E f \in {"find_valid_workflows", "needs_pinning", "run_pinact_on_workflows"},
          class \in ExceptionClasses :
          /\ CASE f = "find_valid_workflows" -> cli_pc = "walk"
                [] f = "needs_pinning" ->
                      cli_pc = "select" /\ ~force /\ valid_workflows # <<>>
                [] OTHER -> cli_pc = "run"
          /\ raised' = [by |-> f, class |-> class]
          /\ cli_pc' = IF Caught(class) THEN "exit" ELSE "propagated"
          /\ exit_code' = IF Caught(class) THEN 1 ELSE exit_code
    /\ IF cli_pc = "select"
       THEN \E k \in 1..Len(valid_workflows) :
                consulted' = SubSeq(valid_workflows, 1, k)
       ELSE consulted' = consulted
    /\ UNCHANGED <<main_vars, first_run, PinactInputs, pos, valid_workflows,
                   workflows_to_pin, attempts, success_count, failure_count>>

NextRaise ==
    \/ MissingPrefix
    \/ BeginWalk
    \/ WalkFile
    \/ WalkError
    \/ WalkEnd
    \/ SelectWorkflows
    \/ RunPinact
    \/ RunEnd
    \/ Finish
    \/ CallRaises

SpecRaise == InitPinact /\ [][NextRaise]_vars

----------------------------------------------------------------------------
(* pinact.needs_pinning on one potential workflow *)

MaxLines == 2

\* the lines the explored workflows are made of
Lines ==
    [ \* a line without uses
      NoUses |->
        <<"n", "a", "m", "e", ":", " ", "x">>,
      \* a commented-out uses line
      Commented |->
        <<"#", " ", "u", "s", "e", "s", ":", " ", "x", "/", "y", "@", "v", "1">>,
      \* a step at a commit SHA
      Pinned |->
        <<" ", " ", "-", " ", "u", "s", "e", "s", ":", " ", "x", "/", "y", "@",
        "1", "a", "2", "b", "3", "c", "4", "d", "5", "e", "1", "a", "2", "b",
        "3", "c", "4", "d", "5", "e", "1", "a", "2", "b", "3", "c", "4", "d",
        "5", "e", "1", "a", "2", "b", "3", "c", "4", "d", "5", "e">>,
      \* a step at a tag
      Tag |->
        <<" ", " ", "-", " ", "u", "s", "e", "s", ":", " ", "x", "/", "y", "@",
        "v", "4">>,
      \* a reference without @
      Bare |->
        <<"u", "s", "e", "s", ":", " ", "x", "/", "y">>,
      \* 40 hex characters, one of them upper case
      UpperCase |->
        <<"-", "u", "s", "e", "s", ":", " ", "x", "/", "y", "@", "1", "a", "2",
        "b", "3", "c", "4", "d", "5", "e", "1", "a", "2", "b", "3", "c", "4",
        "d", "5", "e", "1", "a", "2", "b", "3", "c", "4", "d", "5", "e", "1",
        "a", "2", "b", "3", "c", "4", "d", "5", "E">>,
      \* 39 hex characters
      ShortSha |->
        <<" ", " ", "u", "s", "e", "s", ":", " ", "x", "/", "y", "@", "1", "a",
        "2", "b", "3", "c", "4", "d", "5", "e", "1", "a", "2", "b", "3", "c",
        "4", "d", "5", "e", "1", "a", "2", "b", "3", "c", "4", "d", "5", "e",
        "1", "a", "2", "b", "3", "c", "4", "d", "5">>,
      \* uses: without a reference
      EmptyUses |->
        <<" ", " ", "u", "s", "e", "s", ":", " ">>,
      \* uses: in the middle of the line
      InnerUses |->
        <<"r", "u", "n", ":", " ", "e", "c", "h", "o", " ", "u", "s", "e", "s",
        ":", " ", "x", "/", "y", "@", "v", "1">>,
      \* no space after the colon, a character after the SHA
      Tight |->
        <<"\t", "u", "s", "e", "s", ":", "x", "/", "y", "@", "1", "a", "2", "b",
        "3", "c", "4", "d", "5", "e", "1", "a", "2", "b", "3", "c", "4", "d",
        "5", "e", "1", "a", "2", "b", "3", "c", "4", "d", "5", "e", "1", "a",
        "2", "b", "3", "c", "4", "d", "5", "e", "z">>,
      \* two list hyphens
      TwoHyphen |->
        <<"-", " ", "-", " ", "u", "s", "e", "s", ":", " ", "x", "/", "y", "@",
        "v", "4">>,
      \* a SHA in a trailing comment
      TrailingSha |->
        <<"u", "s", "e", "s", ":", " ", "x", "/", "y", " ", "#", " ", "@", "1",
        "a", "2", "b", "3", "c", "4", "d", "5", "e", "1", "a", "2", "b", "3",
        "c", "4", "d", "5", "e", "1", "a", "2", "b", "3", "c", "4", "d", "5",
        "e", "1", "a", "2", "b", "3", "c", "4", "d", "5", "e">> ]

\* the line ends a file may use
LineEnds == {<<"\n">>, <<"\r">>, <<"\r", "\n">>}

\* the lines joined, each followed by the line end
RECURSIVE JoinLines(_, _)
JoinLines(ls, end) ==
    IF ls = <<>> THEN <<>> ELSE Head(ls) \o end \o JoinLines(Tail(ls), end)

WorkflowContents ==
    {JoinLines(ls, end) :
        ls \in UNION {[1..n -> {Lines[k] : k \in DOMAIN Lines}] : n \in 0..MaxLines},
        end \in LineEnds}

\* the path of the potential workflow
CheckedPath == << <<"w", ".", "y", "m", "l">> >>

\* the workflow is gone, or is there with one of the contents and can be
\* read or not
CheckedDirs ==
    {[exists |-> TRUE, files |-> <<>>]} \cup
        {[exists |-> TRUE, files |-> <<WorkflowFile(CheckedPath, content, readable)>>] :
            content \in WorkflowContents, readable \in BOOLEAN}

\* find_valid_workflows has returned the path to cli_main, without --force
InitCheck ==
    /\ MainIdle
    /\ org_prefix = [set |-> TRUE, value |-> <<"o">>]
    /\ force = FALSE
    /\ workflow_dir \in CheckedDirs
    /\ cli_pc = "select"
    /\ pos = 1
    /\ valid_workflows = <<CheckedPath>>
    /\ workflows_to_pin = <<>>
    /\ consulted = <<>>
    /\ attempts = <<>>
    /\ success_count = 0
    /\ failure_count = 0
    /\ exit_code = 0
    /\ raised = NotRaised

NextCheck ==
    \/ SelectWorkflows
    \/ RunPinact
    \/ RunEnd
    \/ Finish

SpecCheck == InitCheck /\ [][NextCheck]_vars

----------------------------------------------------------------------------
(* Vocabulary of the properties *)

\* main has returned: the file holds the document
Done == pc = "done"

\* the updates list of the written document
Updates == dependabot_yml.doc.updates

IsVersionUpdate(e) == InList("version-update", e.labels)

IsSecurityUpdate(e) == InList("security-update", e.labels)

\* the <<directory, ecosystem>> pairs of the DirectoryManifest
ManifestPairs ==
    UNION {{<<D, directory_managers[D][i][1]>> : i \in 1..Len(directory_managers[D])} :
              D \in DOMAIN directory_managers}

\* the filenames recorded for a pair
FilesOf(D, E) ==
    {directory_managers[D][i][2] :
        i \in {j \in 1..Len(directory_managers[D]) : directory_managers[D][j][1] = E}}

\* positions of the entries of a pair
EntriesOf(D, E) ==
    {i \in 1..Len(Updates) :
        Updates[i]["package-ecosystem"] = E /\ Updates[i].directory = D}

VersionEntriesOf(D, E) == {i \in EntriesOf(D, E) : IsVersionUpdate(Updates[i])}

SecurityEntriesOf(D, E) == {i \in EntriesOf(D, E) : IsSecurityUpdate(Updates[i])}

\* the components of a directory path or of an ignore-directory rule
PathComponents(p) == IF Strip(p) = <<>> THEN <<>> ELSE Split(Strip(p))

\* directory D is R or lies below R; every directory lies at or below "/"
AtOrBelow(D, R) ==
    /\ Len(PathComponents(R)) <= Len(PathComponents(D))
    /\ SubSeq(PathComponents(D), 1, Len(PathComponents(R))) = PathComponents(R)

\* a security-update entry as the design fixes it
WellFormedSecurity(e) ==
    /\ e["open-pull-requests-limit"] = 0
    /\ "prodsec" \in DOMAIN e.groups

----------------------------------------------------------------------------
(* C1 *)

\* C1: every directory that equals or lies below an ignore-directory rule
\* (the rule "/" included) has no version-update entry and still has a
\* security-update entry, for each of its ecosystems.
C1_IgnoredDirectoryKeepsOnlySecurity ==
    Done =>
        \A pair \in ManifestPairs :
            (\E i \in 1..Len(settings.directories) :
                AtOrBelow(pair[1], settings.directories[i]))
            => /\ VersionEntriesOf(pair[1], pair[2]) = {}
               /\ SecurityEntriesOf(pair[1], pair[2]) # {}

----------------------------------------------------------------------------
(* C2 *)

\* the two entries of a pair: one version-update with the configured limit,
\* one security-update with limit 0
TwoEntries(pair) ==
    /\ Cardinality(EntriesOf(pair[1], pair[2])) = 2
    /\ \E i \in VersionEntriesOf(pair[1], pair[2]) :
          Updates[i]["open-pull-requests-limit"] = args.open_pull_requests_limit
    /\ \E i \in SecurityEntriesOf(pair[1], pair[2]) :
          Updates[i]["open-pull-requests-limit"] = 0

NoSuppressionRules == settings.directories = <<>> /\ settings.file_patterns = <<>>

\* C2 as stated: without suppression rules every pair of the manifest has
\* exactly its two entries, whatever the configured limit.
C2_TwoEntriesForEveryLimit ==
    (Done /\ NoSuppressionRules) => \A pair \in ManifestPairs : TwoEntries(pair)

\* C2 amended: the same when the configured limit is greater than 0.
C2_TwoEntriesForPositiveLimit ==
    (Done /\ NoSuppressionRules /\ args.open_pull_requests_limit > 0)
        => \A pair \in ManifestPairs : TwoEntries(pair)

C2_Witness ==
    /\ Done /\ NoSuppressionRules /\ args.open_pull_requests_limit > 0
    /\ Cardinality(ManifestPairs) = 2
    /\ Len(Updates) = 4

----------------------------------------------------------------------------
(* C3 *)

----------------------------------------------------------------------------
(* C4 *)

\* C4: with an open-PR limit of 0 the updates list holds no version-update
\* entry and exactly one security-update entry per pair of the manifest.
C4_LimitZeroOnlySecurity ==
    (Done /\ args.open_pull_requests_limit = 0) =>
        /\ \A i \in 1..Len(Updates) : ~IsVersionUpdate(Updates[i])
        /\ \A pair \in ManifestPairs :
              Cardinality(SecurityEntriesOf(pair[1], pair[2])) = 1
        /\ Len(Updates) = Cardinality(ManifestPairs)

C4_Witness ==
    /\ Done
    /\ args.open_pull_requests_limit = 0
    /\ Cardinality(ManifestPairs) = 2
    /\ Len(Updates) = 2

----------------------------------------------------------------------------
(* C5 *)

\* some filename recorded for the pair matches some ignore-file glob
PatternHit(D, E) ==
    \E f \in FilesOf(D, E) : matches_ignore_pattern(f, settings.file_patterns)

\* the version-update entries of a pair in an updates list
VersionEntryList(updates, D, E) ==
    SelectSeq(updates,
              LAMBDA e : /\ IsVersionUpdate(e)
                         /\ e["package-ecosystem"] = E
                         /\ e.directory = D)

\* the updates list of the same run without ignore-file patterns
UpdatesWithoutFilePatterns ==
    add_ignores(
        Synthesize(directory_managers, args,
                   [settings EXCEPT !.file_patterns = <<>>], registry_map),
        settings.dependencies)

\* C5: a pair with a filename that matches an ignore-file glob has no
\* version-update entry and keeps its security-update entry; every other pair
\* has the version-update entries it has without any ignore-file pattern.
C5_FilePatternSuppressesOnlyItsPair ==
    Done =>
        \A pair \in ManifestPairs :
            IF PatternHit(pair[1], pair[2])
            THEN /\ VersionEntriesOf(pair[1], pair[2]) = {}
                 /\ SecurityEntriesOf(pair[1], pair[2]) # {}
            ELSE VersionEntryList(Updates, pair[1], pair[2])
                    = VersionEntryList(UpdatesWithoutFilePatterns, pair[1], pair[2])

\* one file of the pair matches, another does not, and nothing else would
\* suppress the version-update entry
C5_Witness ==
    /\ Done
    /\ args.open_pull_requests_limit > 0
    /\ \E pair \in ManifestPairs :
          /\ PatternHit(pair[1], pair[2])
          /\ \E f \in FilesOf(pair[1], pair[2]) :
                ~matches_ignore_pattern(f, settings.file_patterns)
          /\ ~DirectoryIgnored(pair[1], settings.directories)
          /\ VersionEntriesOf(pair[1], pair[2]) = {}
          /\ SecurityEntriesOf(pair[1], pair[2]) # {}

----------------------------------------------------------------------------
(* C6 *)

\* C6: no two entries of the written updates list share subtype, ecosystem
\* and directory.
C6_NoDuplicateEntries ==
    Done =>
        \A i, j \in 1..Len(Updates) :
            (/\ i # j
             /\ Updates[i]["package-ecosystem"] = Updates[j]["package-ecosystem"]
             /\ Updates[i].directory = Updates[j].directory)
            => IsSecurityUpdate(Updates[i]) # IsSecurityUpdate(Updates[j])

\* a custom-file declaration repeats a discovered file
C6_Witness ==
    /\ Done
    /\ args.open_pull_requests_limit > 0
    /\ \E D \in DOMAIN directory_managers :
          \E i, j \in 1..Len(directory_managers[D]) :
              i # j /\ directory_managers[D][i] = directory_managers[D][j]
    /\ Len(Updates) = 2

----------------------------------------------------------------------------
(* C7 *)

\* the registries field of an entry, empty when the key is absent
RegistriesOf(e) == IF "registries" \in DOMAIN e THEN e["registries"] ELSE <<>>

\* the registry's name is on an entry exactly when its applicability list
\* is empty or holds the entry's ecosystem
AttachesIff(registry) ==
    \A i \in 1..Len(Updates) :
        InList(registry["name"], RegistriesOf(Updates[i]))
        <=> \/ AppliesToOf(registry) = <<>>
            \/ InList(Updates[i]["package-ecosystem"], AppliesToOf(registry))

\* no later valid declaration carries the same name
LastOfItsName(k) ==
    \A l \in (k + 1)..Len(settings.registries) :
        ~(/\ ValidRegistry(settings.registries[l])
          /\ settings.registries[l]["name"] = settings.registries[k]["name"])

\* C7 as stated: every declared registry that passes validation attaches to
\* an emitted entry iff its applicability list is empty or holds the entry's
\* ecosystem.
C7_EveryValidRegistryAttachesIff ==
    Done =>
        \A k \in 1..Len(settings.registries) :
            ValidRegistry(settings.registries[k]) => AttachesIff(settings.registries[k])

\* C7 amended: the same for every valid declaration that no later valid
\* declaration of the same name follows.
C7_LastValidRegistryAttachesIff ==
    Done =>
        \A k \in 1..Len(settings.registries) :
            (ValidRegistry(settings.registries[k]) /\ LastOfItsName(k))
            => AttachesIff(settings.registries[k])

\* a registry limited to one ecosystem is on the entries of that ecosystem
\* and on no entry of another
C7_Witness ==
    /\ Done
    /\ \E k \in 1..Len(settings.registries) :
          /\ ValidRegistry(settings.registries[k])
          /\ LastOfItsName(k)
          /\ AppliesToOf(settings.registries[k]) # <<>>
          /\ \E i \in 1..Len(Updates) :
                InList(settings.registries[k]["name"], RegistriesOf(Updates[i]))
          /\ \E i \in 1..Len(Updates) :
                ~InList(settings.registries[k]["name"], RegistriesOf(Updates[i]))

----------------------------------------------------------------------------
(* C8 *)

\* C8: once add_ignores has run, no entry whose groups contain prodsec has
\* an ignore key.
C8_NoIgnoreOnSecurityEntries ==
    pc \in {"save", "dump", "done"} =>
        \A i \in 1..Len(dependabot_config.updates) :
            "prodsec" \in DOMAIN dependabot_config.updates[i].groups
            => "ignore" \notin DOMAIN dependabot_config.updates[i]

\* a rule attached to the version-update entry of a pair and not to its
\* security-update entry
C8_Witness ==
    /\ Done
    /\ \E i, j \in 1..Len(Updates) :
          /\ Updates[i]["package-ecosystem"] = Updates[j]["package-ecosystem"]
          /\ Updates[i].directory = Updates[j].directory
          /\ "ignore" \in DOMAIN Updates[i]
          /\ "prodsec" \in DOMAIN Updates[j].groups
          /\ "ignore" \notin DOMAIN Updates[j]

----------------------------------------------------------------------------
(* C9 *)

\* the updates list of the same run with the transitive-security flag set
\* to the given value
UpdatesWithFlag(flag) ==
    add_ignores(
        Synthesize(directory_managers, [args EXCEPT !.transitive_security = flag],
                   settings, registry_map),
        settings.dependencies)

AllowFor(flag) == <<("dependency-type" :> (IF flag THEN "all" ELSE "direct"))>>

\* C9: the run with the opposite flag writes the same entries, except that
\* each security-update entry allows all dependencies with the flag and
\* direct ones without it.
C9_FlagChangesOnlySecurityAllow ==
    Done =>
        LET other == UpdatesWithFlag(~args.transitive_security)
        IN  /\ Len(other) = Len(Updates)
            /\ \A i \in 1..Len(Updates) :
                  IF IsSecurityUpdate(Updates[i])
                  THEN /\ Updates[i].allow = AllowFor(args.transitive_security)
                       /\ other[i] =
                            [Updates[i] EXCEPT !.allow = AllowFor(~args.transitive_security)]
                  ELSE other[i] = Updates[i]

C9_Witness ==
    /\ Done
    /\ args.transitive_security
    /\ \E i, j \in 1..Len(Updates) :
          /\ IsSecurityUpdate(Updates[i])
          /\ Updates[i].allow = AllowFor(TRUE)
          /\ IsVersionUpdate(Updates[j])
          /\ Updates[j].allow = AllowFor(FALSE)

----------------------------------------------------------------------------
(* C10 *)

\* C10: dependabot.yml is written once, as the last step and whole; a run
\* that ends with an unhandled exception leaves the prior file as it was.
C10_NeverPartiallyWritten ==
    /\ Done => writes = 1 /\ dependabot_yml = Written(dependabot_config)
    /\ pc = "failed" => writes = 0 /\ dependabot_yml = PriorFile

----------------------------------------------------------------------------
(* C11 *)

\* the registries section of the written document, empty when omitted
RegistriesSection ==
    IF "registries" \in DOMAIN dependabot_yml.doc
    THEN dependabot_yml.doc["registries"] ELSE <<>>

\* the declaration has a non-empty name and all of name, type and url
DeclaredValid(r) ==
    /\ {"name", "type", "url"} \subseteq DOMAIN r
    /\ r["name"] # ""

\* the section maps the declaration's name to all of its declared fields
\* except name and applies-to
MapsToItsFields(r) ==
    \E i \in 1..Len(RegistriesSection) :
        /\ RegistriesSection[i].name = r["name"]
        /\ DOMAIN RegistriesSection[i].value = DOMAIN r \ {"name", "applies-to"}
        /\ \A key \in DOMAIN r \ {"name", "applies-to"} :
              RegistriesSection[i].value[key] = r[key]

\* the section is a mapping of exactly the names of the valid declarations,
\* and is omitted when there is none
SectionNamesValid ==
    /\ {RegistriesSection[i].name : i \in 1..Len(RegistriesSection)}
          = {settings.registries[k]["name"] :
                k \in {l \in 1..Len(settings.registries) :
                          DeclaredValid(settings.registries[l])}}
    /\ \A i, j \in 1..Len(RegistriesSection) :
          RegistriesSection[i].name = RegistriesSection[j].name => i = j
    /\ ("registries" \in DOMAIN dependabot_yml.doc)
          <=> (\E k \in 1..Len(settings.registries) :
                  DeclaredValid(settings.registries[k]))

\* no later valid declaration has the name of declaration k
NotRedeclared(k) ==
    \A l \in (k + 1)..Len(settings.registries) :
        ~(/\ DeclaredValid(settings.registries[l])
          /\ settings.registries[l]["name"] = settings.registries[k]["name"])

\* C11 as stated: the registries section maps exactly the names of the valid
\* declarations, each to all of its declared fields except name and
\* applies-to; invalid declarations are skipped and the section is omitted
\* when no declaration is valid.
C11_SectionMapsEveryValidRegistry ==
    Done =>
        /\ SectionNamesValid
        /\ \A k \in 1..Len(settings.registries) :
              DeclaredValid(settings.registries[k])
              => MapsToItsFields(settings.registries[k])

\* C11 amended: a name declared more than once maps to the fields of its
\* last valid declaration.
C11_SectionMapsLastValidRegistry ==
    Done =>
        /\ SectionNamesValid
        /\ \A k \in 1..Len(settings.registries) :
              (DeclaredValid(settings.registries[k]) /\ NotRedeclared(k))
              => MapsToItsFields(settings.registries[k])

\* an invalid declaration comes before a valid one: the first is skipped,
\* the second is in the section
C11_Witness ==
    /\ Done
    /\ \E k, l \in 1..Len(settings.registries) :
          /\ k < l
          /\ ~DeclaredValid(settings.registries[k])
          /\ DeclaredValid(settings.registries[l])
          /\ MapsToItsFields(settings.registries[l])
    /\ Len(RegistriesSection) = 1

----------------------------------------------------------------------------
(* C12 *)

Reverse(seq) == [i \in 1..Len(seq) |-> seq[Len(seq) + 1 - i]]

\* the (directory, ecosystem, filename) triples of a manifest
Triples(dm) ==
    UNION {{<<D, dm[D][i][1], dm[D][i][2]>> : i \in 1..Len(dm[D])} : D \in DOMAIN dm}

\* the manifest with the files of each directory recorded in the opposite order
Reversed(dm) == [D \in DOMAIN dm |-> Reverse(dm[D])]

\* the manifest with every file recorded twice
Doubled(dm) == [D \in DOMAIN dm |-> dm[D] \o dm[D]]

\* the updates list the same run writes from manifest dm
UpdatesFrom(dm) ==
    add_ignores(Synthesize(dm, args, settings, registry_map), settings.dependencies)

\* C12: a manifest that holds the same triples in another discovery order
\* or with other multiplicities gives the identical updates list.
C12_UpdatesDependOnlyOnTriples ==
    Done =>
        /\ Triples(Reversed(directory_managers)) = Triples(directory_managers)
        /\ Triples(Doubled(directory_managers)) = Triples(directory_managers)
        /\ UpdatesFrom(Reversed(directory_managers)) = Updates
        /\ UpdatesFrom(Doubled(directory_managers)) = Updates

\* a directory with two ecosystems, whose order of discovery changes which
\* ecosystem is recorded first
C12_Witness ==
    /\ Done
    /\ Updates # <<>>
    /\ Reversed(directory_managers) # directory_managers
    /\ \E D \in DOMAIN directory_managers :
          /\ Len(directory_managers[D]) >= 2
          /\ directory_managers[D][1][1] # directory_managers[D][2][1]

----------------------------------------------------------------------------
(* C14 *)

Weekly(day) ==
    [interval |-> "weekly", day |-> day, time |-> "08:00", timezone |-> "America/Chicago"]

\* C14: every docker entry, version-update or security-update, is scheduled
\* weekly on wednesday at 08:00 America/Chicago, and every entry of another
\* ecosystem weekly on monday at 08:00 America/Chicago.
C14_DockerWednesdayOthersMonday ==
    Done =>
        \A i \in 1..Len(Updates) :
            /\ IsVersionUpdate(Updates[i]) \/ IsSecurityUpdate(Updates[i])
            /\ Updates[i].schedule =
                  (IF Updates[i]["package-ecosystem"] = "docker"
                   THEN Weekly("wednesday") ELSE Weekly("monday"))

\* both kinds of entry for docker and for another ecosystem
C14_Witness ==
    /\ Done
    /\ \E i, j, k, l \in 1..Len(Updates) :
          /\ Updates[i]["package-ecosystem"] = "docker" /\ IsVersionUpdate(Updates[i])
          /\ Updates[j]["package-ecosystem"] = "docker" /\ IsSecurityUpdate(Updates[j])
          /\ Updates[k]["package-ecosystem"] = "gomod" /\ IsVersionUpdate(Updates[k])
          /\ Updates[l]["package-ecosystem"] = "gomod" /\ IsSecurityUpdate(Updates[l])
          /\ Updates[i].schedule.day = "wednesday"
          /\ Updates[l].schedule.day = "monday"

----------------------------------------------------------------------------
(* C15 *)

\* the directory of the pair matches an ignore-directory rule
DirectoryHit(D) == DirectoryIgnored(D, settings.directories)

----------------------------------------------------------------------------
(* C16 *)

\* a step of main other than an exception
NormalStep ==
    \/ LoadSettings \/ ScanRepository \/ AddCustomFiles \/ AddRegistries
    \/ SynthesizeEntries \/ AddIgnores \/ SaveOpen \/ SaveDump

\* C16: without a settings file the five settings lists are empty; when the
\* repository holds no manifest either, main can always take its next step
\* and the document it writes has version 2, no update and no registries
\* section.
C16_EmptyRepositoryEmptyDocument ==
    /\ (settings_file = NoFile /\ pc \notin {"load_settings", "failed"})
          => settings = [dependencies |-> <<>>, directories |-> <<>>,
                         file_patterns |-> <<>>, registries |-> <<>>,
                         custom_files |-> <<>>]
    /\ (settings_file = NoFile /\ tree = <<>> /\ pc \notin {"done", "failed"})
          => ENABLED NormalStep
    /\ (settings_file = NoFile /\ tree = <<>> /\ Done)
          => /\ DOMAIN dependabot_yml.doc = {"version", "updates"}
             /\ dependabot_yml.doc.version = 2
             /\ dependabot_yml.doc.updates = <<>>
             /\ dependabot_yml.complete

\* the run on the empty repository without settings file has written
C16_Witness ==
    /\ Done
    /\ settings_file = NoFile
    /\ tree = <<>>
    /\ writes = 1
    /\ dependabot_yml.doc.updates = <<>>

----------------------------------------------------------------------------
(* C17 *)

\* the workflows the pinning tool was run on, in the order of the runs
Attempted == [k \in 1..Len(attempts) |-> attempts[k].workflow]

FailedAttempts == {k \in 1..Len(attempts) : attempts[k].outcome # "ok"}

\* C17: a non-zero exit, a timeout or another exception of one run of the
\* pinning tool is counted as a failure of that workflow only: the runs so
\* far are the first workflows of the list, one run each and in list order,
\* the two counters add up to the number of runs, the loop goes on to the
\* next workflow whatever the earlier outcomes were, every workflow of the
\* list has been run once when the loop is left, and cli_main returns 0.
C17_FailureDoesNotStopTheRuns ==
    /\ Attempted = SubSeq(workflows_to_pin, 1, Len(attempts))
    /\ failure_count = Cardinality(FailedAttempts)
    /\ success_count + failure_count = Len(attempts)
    /\ cli_pc = "run" => Len(attempts) = pos - 1
    /\ (cli_pc = "run" /\ Len(attempts) < Len(workflows_to_pin)) => ENABLED RunPinact
    /\ (cli_pc \in {"finish", "exit"} /\ exit_code # 1)
          => /\ Attempted = workflows_to_pin
             /\ success_count + failure_count = Len(workflows_to_pin)
    /\ (cli_pc = "exit" /\ ~PrefixMissing(org_prefix)) => exit_code = 0

\* every run failed, each in another way, and cli_main returned 0
C17_Witness ==
    /\ cli_pc = "exit"
    /\ exit_code = 0
    /\ raised = NotRaised
    /\ Len(workflows_to_pin) = 3
    /\ failure_count = 3
    /\ attempts[1].outcome = "TimeoutExpired"
    /\ attempts[2].outcome = "CalledProcessError"
    /\ attempts[3].outcome = "Exception"

----------------------------------------------------------------------------
(* C18 *)

\* ORGANIZATION_PREFIX is unset or empty
PrefixUnsetOrEmpty ==
    org_prefix \in {[set |-> FALSE], [set |-> TRUE, value |-> <<>>]}

\* C18: with ORGANIZATION_PREFIX unset or empty, the first step of
\* find_valid_workflows raises: no file is scanned, needs_pinning and the
\* pinning tool are never called, and cli_main returns a non-zero exit code.
C18_MissingPrefixFailsBeforeTheScan ==
    PrefixUnsetOrEmpty =>
        /\ cli_pc \in {"start", "exit"}
        /\ cli_pc = "exit" => exit_code # 0
        /\ pos = 0
        /\ valid_workflows = <<>>
        /\ consulted = <<>>
        /\ attempts = <<>>

\* cli_main returned 1 on an empty prefix although a workflow needs pinning
C18_Witness ==
    /\ cli_pc = "exit"
    /\ exit_code = 1
    /\ org_prefix = [set |-> TRUE, value |-> <<>>]
    /\ workflow_dir.exists
    /\ \E i \in 1..Len(workflow_dir.files) :
          /\ IsValidWorkflow(workflow_dir.files[i], <<>>)
          /\ needs_pinning(workflow_dir.files[i])
    /\ attempts = <<>>

----------------------------------------------------------------------------
(* C19 *)

\* the valid workflows for which needs_pinning returns true, in discovery order
NeedingPins ==
    SelectSeq(valid_workflows, LAMBDA wf : needs_pinning(FileAt(workflow_dir, wf)))

\* the workflows cli_main is to run the pinning tool on
ToBePinned == IF force THEN valid_workflows ELSE NeedingPins

\* cli_main is past the choice of the workflows
Chosen ==
    \/ cli_pc \in {"run", "finish"}
    \/ cli_pc = "exit" /\ ~PrefixUnsetOrEmpty

\* C19: the pinning tool is run on the valid workflows that need pinning,
\* or with --force on all valid workflows without a call of needs_pinning,
\* in discovery order; when there is none, run_pinact_on_workflows is not
\* called and cli_main returns 0.
C19_PinsExactlyTheChosenWorkflows ==
    /\ Chosen =>
          /\ workflows_to_pin = ToBePinned
          /\ Attempted = SubSeq(ToBePinned, 1, Len(attempts))
          /\ consulted = (IF force THEN <<>> ELSE valid_workflows)
          /\ cli_pc = "run" => ToBePinned # <<>>
    /\ (Chosen /\ cli_pc \in {"finish", "exit"}) => Attempted = ToBePinned
    /\ (Chosen /\ cli_pc = "exit" /\ ToBePinned = <<>>)
          => exit_code = 0 /\ success_count + failure_count = 0
    /\ ~Chosen => attempts = <<>>

\* without --force, one valid workflow is pinned already and is left out,
\* another one needs pinning and is run
C19_Witness ==
    /\ cli_pc = "exit"
    /\ exit_code = 0
    /\ raised = NotRaised
    /\ ~force
    /\ Len(valid_workflows) = 2
    /\ Len(attempts) = 1
    /\ Attempted = NeedingPins
    /\ consulted = valid_workflows

----------------------------------------------------------------------------
(* C20 *)

\* the last n characters of the file's name
NameEnd(f, n) ==
    LET name == f.path[Len(f.path)]
    IN  IF n <= Len(name) THEN SubSeq(name, Len(name) - n + 1, Len(name)) ELSE <<>>

\* the file's name ends in .yml or .yaml, the file can be read and its
\* content does not hold the substring "uses: <prefix>/"
Qualifies(f) ==
    /\ \/ NameEnd(f, 4) = <<".", "y", "m", "l">>
       \/ NameEnd(f, 5) = <<".", "y", "a", "m", "l">>
    /\ f.readable
    /\ LET pattern == <<"u", "s", "e", "s", ":", " ">> \o org_prefix.value \o <<"/">>
       IN  \A i \in 1..Len(f.content) :
              i + Len(pattern) - 1 <= Len(f.content)
              => SubSeq(f.content, i, i + Len(pattern) - 1) # pattern

\* the paths of the qualifying files among the first n the walk yields
QualifyingAmong(n) ==
    LET walked == SubSeq(workflow_dir.files, 1, n)
        kept == SelectSeq(walked, Qualifies)
    IN  [k \in 1..Len(kept) |-> kept[k].path]

----------------------------------------------------------------------------
(* C13 *)

\* the second run has returned
SecondRunDone == pc = "done" /\ first_run.ran

\* the scan has recorded neither the generated file nor the settings file
ScanSkipsOwnFiles ==
    \A D \in DOMAIN ScannedTrees[tree] :
        \A i \in 1..Len(ScannedTrees[tree][D]) :
            ScannedTrees[tree][D][i][2] \notin {basename(ConfigPath), basename(SettingsPath)}

\* no custom-files declaration names the generated file
ConfigFileNotDeclared ==
    \A i \in 1..Len(settings.custom_files) :
        "path" \in DOMAIN settings.custom_files[i]
        => FullPath(settings.custom_files[i]["path"]) # ConfigPath

\* C13 as stated: after the second of two runs in succession dependabot.yml
\* has the content the first run left, and the scan of the second run has
\* recorded neither the generated file nor the settings file.
C13_SecondRunLeavesTheSameFile ==
    SecondRunDone =>
        /\ dependabot_yml = first_run.file
        /\ writes = 1
        /\ ScanSkipsOwnFiles

\* C13 amended: the same when no custom-files declaration names the
\* generated file, or when the file existed before the first run.
C13_SecondRunLeavesTheSameFileUnlessNewlyDeclared ==
    (SecondRunDone /\ (ConfigFileNotDeclared \/ first_run.had_config)) =>
        /\ dependabot_yml = first_run.file
        /\ writes = 1
        /\ ScanSkipsOwnFiles

\* the first run created the file, the second one found it and the settings
\* file in the repository and wrote the same entries again
C13_Witness ==
    /\ SecondRunDone
    /\ ConfigFileNotDeclared
    /\ ~first_run.had_config
    /\ isfile(tree, ConfigPath) /\ isfile(tree, SettingsPath)
    /\ settings.custom_files # <<>>
    /\ Updates # <<>>
    /\ dependabot_yml = first_run.file

----------------------------------------------------------------------------
(* C21 *)

\* the line starts, after optional whitespace and one optional hyphen, with
\* uses: and n characters precede the word
UsesAt(line, n) ==
    /\ n + Len(Uses) <= Len(line)
    /\ SubSeq(line, n + 1, n + Len(Uses)) = Uses
    /\ \A i \in 1..n : IsSpace(line[i]) \/ line[i] = "-"
    /\ Cardinality({i \in 1..n : line[i] = "-"}) <= 1

\* the reference of a uses line: the characters from position a to b, the
\* first run without whitespace after the word
ReferenceAt(line, n, a, b) ==
    /\ n + Len(Uses) < a /\ a <= b /\ b <= Len(line)
    /\ \A i \in (n + Len(Uses) + 1)..(a - 1) : IsSpace(line[i])
    /\ \A i \in a..b : ~IsSpace(line[i])
    /\ b = Len(line) \/ IsSpace(line[b + 1])

\* @ followed by 40 lower-case hex characters between a and b
ShaPinned(line, a, b) ==
    \E k \in a..b :
        /\ line[k] = "@"
        /\ k + ShaLength <= b
        /\ \A i \in (k + 1)..(k + ShaLength) : IsHex(line[i])

\* the line is a uses line with a reference that is not pinned to a SHA
UnpinnedUsesLine(line) ==
    \E n \in 0..Len(line) :
        /\ UsesAt(line, n)
        /\ \E a, b \in 1..Len(line) :
              ReferenceAt(line, n, a, b) /\ ~ShaPinned(line, a, b)

\* position i of the content holds a character of a line end
LineBreak(content, i) == content[i] \in {"\n", "\r"}

\* the non-empty lines of a content, without their line ends
LinesOf(content) ==
    LET starts == {a \in 1..Len(content) :
                      /\ ~LineBreak(content, a)
                      /\ a = 1 \/ LineBreak(content, a - 1)}
        stop(a) == CHOOSE b \in a..Len(content) :
                      /\ b = Len(content) \/ LineBreak(content, b + 1)
                      /\ \A i \in a..b : ~LineBreak(content, i)
    IN  {SubSeq(content, a, stop(a)) : a \in starts}

\* the file can be read and holds an unpinned uses line
ShouldPin(file) ==
    /\ file.readable
    /\ \E line \in LinesOf(file.content) : UnpinnedUsesLine(line)

\* every line of the file is one of the given lines
OnlyLines(file, allowed) ==
    LinesOf(file.content) \subseteq allowed

\* C21: needs_pinning is true for a consulted workflow iff the file can be
\* read and some line that starts (after optional whitespace and an optional
\* hyphen) with uses: carries a reference without @ and 40 lower-case hex
\* characters; it is false for a file without uses line, with commented-out
\* uses lines only, with SHA-pinned uses lines only, and for a missing or
\* unreadable file.
C21_NeedsPinningIffUnpinnedUsesLine ==
    (cli_pc # "select") =>
        \A i \in 1..Len(consulted) :
            LET file == FileAt(workflow_dir, consulted[i])
            IN  /\ InList(consulted[i], workflows_to_pin) <=> ShouldPin(file)
                /\ (\/ ~file.readable
                    \/ OnlyLines(file, {Lines.NoUses, Lines.Commented, Lines.Pinned, Lines.Tight}))
                   => ~InList(consulted[i], workflows_to_pin)

\* a readable file with a pinned and an unpinned step was found to need
\* pinning
C21_Witness ==
    /\ cli_pc = "exit"
    /\ consulted = <<CheckedPath>>
    /\ workflows_to_pin = <<CheckedPath>>
    /\ workflow_dir.files # <<>>
    /\ workflow_dir.files[1].content = Lines.Pinned \o <<"\r">> \o Lines.ShortSha \o <<"\r">>

----------------------------------------------------------------------------
(* C22 *)

\* cli_main has returned
Returned == cli_pc = "exit"

\* an exception has left a call made by cli_main
HasRaised == raised # NotRaised

\* C22 as stated: cli_main returns 1 whenever find_valid_workflows,
\* needs_pinning or run_pinact_on_workflows has raised any exception and 0
\* whenever none of them has; an exception never leaves cli_main.
C22_ReturnsOneIffACallRaised ==
    /\ Returned => (exit_code = (IF HasRaised THEN 1 ELSE 0))
    /\ HasRaised => Returned
    /\ cli_pc # "propagated"

\* C22 amended: the same for the exceptions derived from Exception; any
\* other exception (an interrupt) leaves cli_main, which returns nothing.
C22_ReturnsOneIffAnErrorWasRaised ==
    /\ Returned => (exit_code = (IF HasRaised THEN 1 ELSE 0))
    /\ (HasRaised /\ Caught(raised.class)) => Returned
    /\ (cli_pc = "propagated") <=> (HasRaised /\ ~Caught(raised.class))

\* run_pinact_on_workflows raised an error after a run of the tool had
\* succeeded
C22_Witness ==
    /\ Returned
    /\ raised = [by |-> "run_pinact_on_workflows", class |-> "Exception"]
    /\ success_count > 0
    /\ exit_code = 1

----------------------------------------------------------------------------
(* C23 *)

\* p without its leading and trailing slashes, as positions of p
Trimmed(p) ==
    LET inner == {i \in 1..Len(p) : p[i] # "/"}
    IN  IF inner = {} THEN <<>>
        ELSE SubSeq(p, CHOOSE i \in inner : \A j \in inner : i <= j,
                       CHOOSE i \in inner : \A j \in inner : j <= i)

\* the trimmed directory equals the trimmed rule or continues it with a slash
RuleCovers(rule, D) ==
    LET d == Trimmed(D)
        r == Trimmed(rule)
    IN  \/ d = r
        \/ /\ Len(d) > Len(r)
           /\ \A i \in 1..Len(r) : d[i] = r[i]
           /\ d[Len(r) + 1] = "/"

\* C23: a pair (D, E) of the manifest has a version-update entry iff the
\* open-PR limit is greater than 0, no filename recorded for the pair matches
\* an ignore-file glob, and no ignore-directory rule, slashes trimmed, equals
\* the trimmed D or is continued by "/" in it.
C23_VersionEntryIffNotSuppressed ==
    Done =>
        \A pair \in ManifestPairs :
            (VersionEntriesOf(pair[1], pair[2]) # {})
            <=> /\ args.open_pull_requests_limit > 0
                /\ \A f \in FilesOf(pair[1], pair[2]) :
                      \A j \in 1..Len(settings.file_patterns) :
                          ~fnmatch(f, settings.file_patterns[j])
                /\ \A i \in 1..Len(settings.directories) :
                      ~RuleCovers(settings.directories[i], pair[1])

\* the rule /a/ suppresses the entry of /a and leaves the one of its sibling
\* /ab
C23_Witness ==
    /\ Done
    /\ args.open_pull_requests_limit > 0
    /\ settings.directories = << <<"/", "a", "/">> >>
    /\ \E E \in {p[2] : p \in ManifestPairs} :
          /\ <<"/", "a">> \in DOMAIN directory_managers
          /\ <<"/", "a", "b">> \in DOMAIN directory_managers
          /\ <<<<"/", "a">>, E>> \in ManifestPairs
          /\ <<<<"/", "a", "b">>, E>> \in ManifestPairs
          /\ VersionEntriesOf(<<"/", "a">>, E) = {}
          /\ VersionEntriesOf(<<"/", "a", "b">>, E) # {}

----------------------------------------------------------------------------
(* C24 *)

\* the rank of an ecosystem name among the sorted names
ManagerRank(E) == CHOOSE k \in 1..Len(ManagerNames) : ManagerNames[k] = E

\* entry i stands before entry j as the order of the list demands
InOrder(i, j) ==
    LET Di == Updates[i].directory
        Dj == Updates[j].directory
        Ei == Updates[i]["package-ecosystem"]
        Ej == Updates[j]["package-ecosystem"]
    IN  \/ StrLess(Di, Dj)
        \/ Di = Dj /\ ManagerRank(Ei) < ManagerRank(Ej)
        \/ /\ Di = Dj /\ Ei = Ej
           /\ IsVersionUpdate(Updates[i]) /\ IsSecurityUpdate(Updates[j])
           /\ j = i + 1

\* C24: the updates list is ordered by directory path in string order, then
\* by ecosystem name in sorted order, and the version-update entry of a pair
\* stands immediately before the security-update entry of the pair.
C24_UpdatesOrderedByDirectoryThenEcosystem ==
    Done => \A i, j \in 1..Len(Updates) : i < j => InOrder(i, j)

\* the entries of /a/b stand before those of /ab, each version-update entry
\* immediately before the security-update entry of its pair
C24_Witness ==
    /\ Done
    /\ Len(Updates) = 4
    /\ Updates[1].directory = <<"/", "a", "/", "b">>
    /\ Updates[3].directory = <<"/", "a", "b">>
    /\ IsVersionUpdate(Updates[1]) /\ IsSecurityUpdate(Updates[2])
    /\ IsVersionUpdate(Updates[3]) /\ IsSecurityUpdate(Updates[4])

\* in one directory the entries of docker stand before those of gomod
C24_WitnessEcosystems ==
    /\ Done
    /\ Len(Updates) = 4
    /\ Updates[1].directory = Updates[3].directory
    /\ Updates[1]["package-ecosystem"] = "docker"
    /\ Updates[3]["package-ecosystem"] = "gomod"

----------------------------------------------------------------------------
(* C25 *)

\* the configured ignore-dependency rules of an ecosystem, in rule order
RulesFor(E) ==
    SelectSeq(settings.dependencies,
              LAMBDA r : "package-ecosystem" \in DOMAIN r /\ r["package-ecosystem"] = E)

\* the block of a rule: its dependency name and its update types
BlockOf(r) ==
    ("dependency-name" :> r["dependency-name"])
        @@ ("update-types" :> (IF "update-types" \in DOMAIN r
                               THEN r["update-types"] ELSE <<>>))

\* C25: the ignore list of every version-update entry of ecosystem E holds
\* one block per configured ignore-dependency rule of E, in rule order and
\* without deduplication, in every directory; an entry without matching rule
\* has no ignore key.
C25_OneIgnoreBlockPerRule ==
    Done =>
        \A i \in 1..Len(Updates) :
            IsVersionUpdate(Updates[i]) =>
                LET rules == RulesFor(Updates[i]["package-ecosystem"])
                IN  IF rules = <<>>
                    THEN "ignore" \notin DOMAIN Updates[i]
                    ELSE /\ "ignore" \in DOMAIN Updates[i]
                         /\ Updates[i]["ignore"]
                               = [k \in 1..Len(rules) |-> BlockOf(rules[k])]

\* two gomod directories carry the same three blocks, two of them equal, and
\* the docker entry carries none although a rule of another ecosystem is
\* configured
C25_Witness ==
    /\ Done
    /\ Len(settings.dependencies) = 4
    /\ \E i, j, k \in 1..Len(Updates) :
          /\ IsVersionUpdate(Updates[i]) /\ IsVersionUpdate(Updates[j])
          /\ IsVersionUpdate(Updates[k])
          /\ Updates[i]["package-ecosystem"] = "gomod"
          /\ Updates[j]["package-ecosystem"] = "gomod"
          /\ Updates[i].directory # Updates[j].directory
          /\ Len(Updates[i]["ignore"]) = 3
          /\ Updates[i]["ignore"][2] = Updates[i]["ignore"][3]
          /\ Updates[i]["ignore"][1] # Updates[i]["ignore"][2]
          /\ Updates[j]["ignore"] = Updates[i]["ignore"]
          /\ Updates[k]["package-ecosystem"] = "docker"
          /\ "ignore" \notin DOMAIN Updates[k]

----------------------------------------------------------------------------
(* C26 *)

\* the positions of the valid declarations
ValidDeclarations ==
    {k \in 1..Len(settings.registries) : DeclaredValid(settings.registries[k])}

\* the valid declaration that is in force for the name declared at k
InForce(k) ==
    settings.registries[
        CHOOSE l \in ValidDeclarations :
            /\ settings.registries[l]["name"] = settings.registries[k]["name"]
            /\ NotRedeclared(l)]

\* the names that apply to ecosystem E, each at the place of its first valid
\* declaration
ApplicableNames(E) ==
    LET places == SelectSeq([k \in 1..Len(settings.registries) |-> k],
                    LAMBDA k :
                        /\ k \in ValidDeclarations
                        /\ \A l \in ValidDeclarations :
                              settings.registries[l]["name"] = settings.registries[k]["name"]
                              => k <= l
                        /\ \/ AppliesToOf(InForce(k)) = <<>>
                           \/ InList(E, AppliesToOf(InForce(k))))
    IN  [n \in 1..Len(places) |-> settings.registries[places[n]]["name"]]

\* C26: the registries field of an entry of ecosystem E lists the applicable
\* registry names in declaration order and is absent when none applies, also
\* when the document has a registries section; the two entries of a pair
\* carry the same list; computing the list again from the same registry map
\* gives the same list.
C26_RegistriesFieldInDeclarationOrder ==
    Done =>
        /\ \A i \in 1..Len(Updates) :
              LET E == Updates[i]["package-ecosystem"]
              IN  /\ RegistriesOf(Updates[i]) = ApplicableNames(E)
                  /\ ("registries" \in DOMAIN Updates[i]) <=> (ApplicableNames(E) # <<>>)
                  /\ RegistriesOf(Updates[i]) = ApplicableRegistries(E, registry_map)
        /\ \A i, j \in 1..Len(Updates) :
              (/\ Updates[i].directory = Updates[j].directory
               /\ Updates[i]["package-ecosystem"] = Updates[j]["package-ecosystem"])
              => /\ RegistriesOf(Updates[i]) = RegistriesOf(Updates[j])
                 /\ ("registries" \in DOMAIN Updates[i])
                       <=> ("registries" \in DOMAIN Updates[j])

\* r2 is declared before r1: the docker entries list r2 then r1, the gomod
\* entries of the same document list r2 alone
C26_Witness ==
    /\ Done
    /\ RegistriesSection # <<>>
    /\ \E i, j, k \in 1..Len(Updates) :
          /\ Updates[i]["package-ecosystem"] = "docker"
          /\ IsVersionUpdate(Updates[i])
          /\ RegistriesOf(Updates[i]) = <<"r2", "r1">>
          /\ Updates[j]["package-ecosystem"] = "docker"
          /\ IsSecurityUpdate(Updates[j])
          /\ RegistriesOf(Updates[j]) = <<"r2", "r1">>
          /\ Updates[k]["package-ecosystem"] = "gomod"
          /\ RegistriesOf(Updates[k]) = <<"r2">>

\* the document has a registries section and an entry without the field
C26_WitnessNoneApplies ==
    /\ Done
    /\ RegistriesSection # <<>>
    /\ \E i \in 1..Len(Updates) : "registries" \notin DOMAIN Updates[i]

----------------------------------------------------------------------------
(* C27 *)

\* the declaration lacks path or manager, names an unknown ecosystem, or its
\* path is not a regular file of the repository
Rejected(custom_file) ==
    \/ "path" \notin DOMAIN custom_file
    \/ "manager" \notin DOMAIN custom_file
    \/ custom_file["manager"] \notin DOMAIN PACKAGE_MANAGERS
    \/ \A i \in 1..Len(tree) : tree[i] # FullPath(custom_file["path"])

\* the declarations that are not rejected, in their order
AcceptedDeclarations == SelectSeq(settings.custom_files, LAMBDA c : ~Rejected(c))

\* the custom files have been processed in this run
CustomFilesProcessed ==
    pc \in {"registries", "synthesize", "add_ignores", "save", "dump", "done"}

\* C27: the manifest after add_custom_files_to_directory_managers is the one
\* the accepted declarations alone produce: a rejected declaration changes
\* nothing and does not keep a later one from being processed; the step
\* completes whatever the declarations are.
C27_RejectedDeclarationsChangeNothing ==
    /\ CustomFilesProcessed =>
          /\ directory_managers
                = add_custom_files_to_directory_managers(
                      tree, AcceptedDeclarations, ScannedTrees[tree])
          /\ AcceptedDeclarations = <<>> => directory_managers = ScannedTrees[tree]
    /\ pc = "custom_files" => ENABLED AddCustomFiles

\* five rejected declarations, then an accepted one that was processed
C27_Witness ==
    /\ pc = "done"
    /\ Len(settings.custom_files) = 6
    /\ \A i \in 1..5 : Rejected(settings.custom_files[i])
    /\ ~Rejected(settings.custom_files[6])
    /\ directory_managers # ScannedTrees[tree]

----------------------------------------------------------------------------
(* C28 *)

\* the declared path without its leading slashes
Relative(p) ==
    LET inner == {i \in 1..Len(p) : p[i] # "/"}
    IN  IF inner = {} THEN <<>>
        ELSE SubSeq(p, CHOOSE i \in inner : \A j \in inner : i <= j, Len(p))

\* the position of the last slash of q, 0 when it has none
LastSlash(q) ==
    LET slashes == {i \in 1..Len(q) : q[i] = "/"}
    IN  IF slashes = {} THEN 0 ELSE CHOOSE i \in slashes : \A j \in slashes : j <= i

\* the manifest key of the directory of a declared path
DeclaredDirectory(p) == <<"/">> \o SubSeq(Relative(p), 1, LastSlash(Relative(p)) - 1)

\* the basename of a declared path
DeclaredName(p) == SubSeq(Relative(p), LastSlash(Relative(p)) + 1, Len(Relative(p)))

\* the manifest a scan leaves that discovers, before anything else in their
\* directories, the files of the given declarations for their ecosystems
RECURSIVE Discovered(_, _)
Discovered(dm, declarations) ==
    IF declarations = <<>> THEN dm
    ELSE LET c == declarations[Len(declarations)]
             D == DeclaredDirectory(c["path"])
             found == <<c["manager"], DeclaredName(c["path"])>>
             rest == Discovered(dm, SubSeq(declarations, 1, Len(declarations) - 1))
         IN  IF D \in DOMAIN rest
             THEN [rest EXCEPT ![D] = <<found>> \o @]
             ELSE (D :> <<found>>) @@ rest

\* every accepted declaration names a file the scan has discovered for the
\* same ecosystem
AllDiscoveredToo ==
    \A i \in 1..Len(AcceptedDeclarations) :
        LET c == AcceptedDeclarations[i]
        IN  <<DeclaredDirectory(c["path"]), c["manager"], DeclaredName(c["path"])>>
                \in Triples(ScannedTrees[tree])

\* C28: the written updates are those of a run whose scan had discovered the
\* files of the accepted declarations, file-pattern suppression by basename
\* included; declarations of files the scan discovers too leave the updates
\* as they are without them.
C28_DeclaredFileIsLikeDiscoveredFile ==
    Done =>
        /\ Updates = UpdatesFrom(Discovered(ScannedTrees[tree], AcceptedDeclarations))
        /\ AllDiscoveredToo => Updates = UpdatesFrom(ScannedTrees[tree])

\* the declared .github/dependabot.yml gives docker entries for /.github,
\* and the pattern *.yml suppresses the version-update entry by its basename
C28_Witness ==
    /\ Done
    /\ args.open_pull_requests_limit > 0
    /\ AcceptedDeclarations = <<CustomConfigFile>>
    /\ settings.file_patterns # <<>>
    /\ ~AllDiscoveredToo
    /\ \E i \in 1..Len(Updates) :
          /\ Updates[i].directory = <<"/", ".", "g", "i", "t", "h", "u", "b">>
          /\ Updates[i]["package-ecosystem"] = "docker"
          /\ IsSecurityUpdate(Updates[i])
    /\ \A i \in 1..Len(Updates) :
          Updates[i].directory = <<"/", ".", "g", "i", "t", "h", "u", "b">>
          => ~IsVersionUpdate(Updates[i])

\* a/go.mod is discovered and declared, and the updates are not empty
C28_WitnessDeclaredTwice ==
    /\ Done
    /\ AcceptedDeclarations # <<>>
    /\ AllDiscoveredToo
    /\ Updates # <<>>

----------------------------------------------------------------------------
(* C29 *)

\* the positions at which a name is validly declared for the first time
FirstDeclarations ==
    SelectSeq([k \in 1..Len(settings.registries) |-> k],
              LAMBDA k : /\ k \in ValidDeclarations
                         /\ \A l \in ValidDeclarations :
                               settings.registries[l]["name"] = settings.registries[k]["name"]
                               => k <= l)

\* declaration k is valid and a later valid declaration has its name
DeclaredAgain(k) == k \in ValidDeclarations /\ ~NotRedeclared(k)

\* C29: when two valid declarations share a name, the registries section
\* holds the name once, at the place of the earlier declaration, with the
\* fields of the later one; the entries list the name when the later
\* declaration applies to their ecosystem, and at most once.
C29_LaterDeclarationAtEarlierPlace ==
    Done =>
        /\ [n \in 1..Len(RegistriesSection) |-> RegistriesSection[n].name]
              = [n \in 1..Len(FirstDeclarations) |->
                    settings.registries[FirstDeclarations[n]]["name"]]
        /\ \A k \in 1..Len(settings.registries) :
              DeclaredAgain(k) =>
                  /\ MapsToItsFields(InForce(k))
                  /\ \A i \in 1..Len(Updates) :
                        /\ InList(settings.registries[k]["name"], RegistriesOf(Updates[i]))
                              <=> \/ AppliesToOf(InForce(k)) = <<>>
                                  \/ InList(Updates[i]["package-ecosystem"],
                                            AppliesToOf(InForce(k)))
                        /\ Cardinality({n \in 1..Len(RegistriesOf(Updates[i])) :
                                RegistriesOf(Updates[i])[n]
                                    = settings.registries[k]["name"]}) <= 1

\* r1 is declared for gomod, then r2, then r1 again for docker: the section
\* holds r1 before r2 with the later url, the docker entries list r1 and r2,
\* the gomod entries r2 alone
C29_Witness ==
    /\ Done
    /\ Len(settings.registries) = 3
    /\ DeclaredAgain(1)
    /\ Len(RegistriesSection) = 2
    /\ RegistriesSection[1].name = "r1"
    /\ RegistriesSection[1].value.url = settings.registries[3].url
    /\ RegistriesSection[1].value.url # settings.registries[1].url
    /\ RegistriesSection[2].name = "r2"
    /\ \E i, j \in 1..Len(Updates) :
          /\ Updates[i]["package-ecosystem"] = "docker"
          /\ RegistriesOf(Updates[i]) = <<"r1", "r2">>
          /\ Updates[j]["package-ecosystem"] = "gomod"
          /\ RegistriesOf(Updates[j]) = <<"r2">>

----------------------------------------------------------------------------
(* C30 *)

\* the recognised keys in the order in which an entry is tested for them
KeyOrder ==
    <<"ignore-dependency", "ignore-directory", "ignore-version-updates-for-files",
      "registries", "custom-files">>

\* the rank of the first recognised key of an entry, 0 when it has none
FirstKey(entry) ==
    LET present == {k \in 1..Len(KeyOrder) : KeyOrder[k] \in DOMAIN entry}
    IN  IF present = {} THEN 0 ELSE CHOOSE k \in present : \A l \in present : k <= l

\* the rules of the entries whose first recognised key has rank k, entry
\* after entry
RECURSIVE Contributed(_, _)
Contributed(entries, k) ==
    IF entries = <<>> THEN <<>>
    ELSE (IF FirstKey(Head(entries)) = k THEN Head(entries)[KeyOrder[k]] ELSE <<>>)
         \o Contributed(Tail(entries), k)

\* C30: every settings entry contributes the rules under the first of its
\* recognised keys in the order ignore-dependency, ignore-directory,
\* ignore-version-updates-for-files, registries, custom-files and nothing
\* else; an entry without recognised key contributes nothing; loading
\* completes for every such entry (the settings are read while the process
\* that loaded them lives).
C30_OnlyTheFirstKeyOfAnEntryCounts ==
    /\ (pc \notin {"load_settings", "failed"} /\ settings_file.exists) =>
          /\ settings.dependencies = Contributed(settings_file.entries, 1)
          /\ settings.directories = Contributed(settings_file.entries, 2)
          /\ settings.file_patterns = Contributed(settings_file.entries, 3)
          /\ settings.registries = Contributed(settings_file.entries, 4)
          /\ settings.custom_files = Contributed(settings_file.entries, 5)
    /\ pc = "load_settings" => ENABLED LoadSettings

\* an entry with all five keys gave its ignore-dependency rules alone, and an
\* entry without recognised key gave nothing
C30_Witness ==
    /\ pc = "done"
    /\ Len(settings_file.entries) = 2
    /\ Cardinality(DOMAIN settings_file.entries[1]) = 5
    /\ FirstKey(settings_file.entries[2]) = 0
    /\ settings = [EmptySettings EXCEPT !.dependencies = <<IgnoreGomodDep, IgnoreGomodDep>>]

====
